---- MODULE Spec2Model ----
(***************************************************************************)
(* Installment ledger of the sales service (src/src/services/saleService.ts)*)
(* and the remote license client it calls                                   *)
(* (clientLicenseService, src/unnamed/part_009).                            *)
(*                                                                          *)
(* Every exported service function is one action: the function runs to      *)
(* completion (one request at a time).  Money is modelled in whole currency *)
(* units, for which Number() and Prisma.Decimal arithmetic are exact.       *)
(* A date is a record [year, month, day] with month 1..12 as in its ISO     *)
(* string; getUTCMonth / Date.UTC convert to and from 0-based months.       *)
(***************************************************************************)
EXTENDS Integers, Sequences, FiniteSets, TLC

\* ---------------------------------------------------------------- bounds
MaxItems == 1
MaxInst == 2
MaxTick == 2

\* Sales do not interact: every operation reads and writes the rows of one
\* sale.  The model follows one sale.
SaleIds == {1}
ItemIds == 1..MaxItems
InstIds == 1..MaxInst

\* ---------------------------------------------------------------- values
Quantities == {1, 2}
Prices == {500}
Amounts == {500, 1000}

InstStatuses == {"PENDING", "PAID"}
NONE == "NONE"

Date(y, m, d) == [year |-> y, month |-> m, day |-> d]
NoDate == Date(0, 0, 0)

IsLeapYear(y) == (y % 4 = 0 /\ y % 100 # 0) \/ y % 400 = 0
\* Days of month m (1..12) of year y.
DaysInMonth(y, m) ==
    IF m = 2 THEN (IF IsLeapYear(y) THEN 29 ELSE 28)
    ELSE IF m \in {4, 6, 9, 11} THEN 30
    ELSE 31

\* Date.UTC(y, m, d) for a 0-based month m >= 0 and a day d >= 1: months past
\* December roll the year over, days past the end of the month roll the
\* month over.
RECURSIVE DateUTC(_, _, _)
DateUTC(y, m, d) ==
    LET year == y + (m \div 12)
        month == (m % 12) + 1
    IN IF d > DaysInMonth(year, month)
       THEN DateUTC(year, month, d - DaysInMonth(year, month))
       ELSE Date(year, month, d)
getUTCFullYear(dt) == dt.year
getUTCMonth(dt) == dt.month - 1

\* The instants at which requests arrive: 2026-01-15, 2026-12-15, ...
InstantAt(i) == DateUTC(2026, 11 * (i - 1), 15)

\* Payment extension dates a director may enter.
ExtensionDates == {Date(2026, 1, 20)}

\* Credentials of the sale's client; NULL, empty and blank are all "not set".
NULL == "NULL"
ClientConfigs ==
    { [backendBaseUrl |-> "https://c.example/", apiUserName |-> "api", apiPassword |-> "pw"],
      [backendBaseUrl |-> "https://c.example/", apiUserName |-> " ",   apiPassword |-> NULL] }

\* What the client's remote API does with one license update.
RemoteOutcomes == {"ok", "login_fail", "patch_fail"}
\* What sendPaymentReceivedNotifications does: it returns (an SMS that fails
\* is caught inside), or its client lookup throws.
NotifyOutcomes == {"ok", "throw"}

VARIABLES
    sales,          \* Sale rows: id -> record
    items,          \* SaleItem rows: id -> record
    installments,   \* SaleInstallment rows: id -> record
    client,         \* the Client row every sale belongs to
    now,            \* index of the current instant
    lastOp          \* the last service call: what it did and returned

\* Job cards and the expenses derived from them (expenseService.ts and the
\* job card service, src/unnamed/part_010).
VARIABLES
    jobCards,       \* JobCard rows: id -> record
    expenses,       \* Expense rows: id -> record
    call,           \* the status propagation in flight, if any
    lastSync        \* the last job card / expense request: what it did

\* The data fields of an expense derived from a JobExpense, and of the
\* JobExpense (expenseService.ts, syncJobExpenseFromExpense).
VARIABLES
    expenseRows,    \* Expense rows, their data fields: id -> record
    jobExpenses,    \* JobExpense rows: id -> record
    lastMirror      \* the last request on these rows: what it did

\* The payment reminders (paymentReminderService.ts).
VARIABLES
    reminderSales,  \* Sale rows with their installments, as the reminders read them
    today,          \* the day of the reminder run
    lastRun,        \* the last reminder run: its kind, its day, the sales it selected
    remindedOn      \* the days on which the extension reminder selected each sale

\* normalizeMobile (paymentReminderService.ts and clientLicenseService).
VARIABLES
    mobileCall      \* a call of normalizeMobile: its argument and, once made, its result

\* A reminder run (sendPaymentReminders / sendPaymentExtensionReminders).
VARIABLES
    batch           \* the run: its inputs, its position, its counters, the SMS calls made

\* A call of updateClientLicenseExpiryOnly (clientLicenseService), step by step.
VARIABLES
    licenseCall     \* the call: its client, its position, the requests sent, the answers

\* Two createInstallment calls on one sale, interleaved at their database calls.
VARIABLES
    race            \* the sale row, its installment rows, and each call's position and locals

\* The installments of one sale under createInstallment / updateInstallment with any amount.
VARIABLES
    book            \* the Sale row, its SaleInstallment rows, and what the last call returned

\* Two job card / expense requests on one job card, interleaved at their database calls.
VARIABLES
    conc            \* the JobCard row, its Expense rows, each request's position and
                    \* locals, and the rows as they were when the requests arrived

ledgerVars == <<sales, items, installments, client, now, lastOp>>
syncVars == <<jobCards, expenses, call, lastSync>>
mirrorVars == <<expenseRows, jobExpenses, lastMirror>>
reminderVars == <<reminderSales, today, lastRun, remindedOn>>
vars == <<sales, items, installments, client, now, lastOp,
          jobCards, expenses, call, lastSync,
          expenseRows, jobExpenses, lastMirror,
          reminderSales, today, lastRun, remindedOn, mobileCall,
          batch,
          licenseCall,
          race,
          book,
          conc>>
outsideLedger == <<syncVars, mirrorVars, reminderVars, mobileCall, batch, licenseCall, race, book, conc>>
outsideSync == <<ledgerVars, mirrorVars, reminderVars, mobileCall, batch, licenseCall, race, book, conc>>
outsideMirror == <<ledgerVars, syncVars, reminderVars, mobileCall, batch, licenseCall, race, book, conc>>
outsideReminder == <<ledgerVars, syncVars, mirrorVars, mobileCall, batch, licenseCall, race, book, conc>>
outsideMobile == <<ledgerVars, syncVars, mirrorVars, reminderVars, batch, licenseCall, race, book, conc>>
outsideBatch == <<ledgerVars, syncVars, mirrorVars, reminderVars, mobileCall, licenseCall, race, book, conc>>
outsideLicense == <<ledgerVars, syncVars, mirrorVars, reminderVars, mobileCall, batch, race, book, conc>>
outsideRace == <<ledgerVars, syncVars, mirrorVars, reminderVars, mobileCall, batch, licenseCall, book, conc>>
outsideBook == <<ledgerVars, syncVars, mirrorVars, reminderVars, mobileCall, batch, licenseCall, race, conc>>
outsideConc == <<ledgerVars, syncVars, mirrorVars, reminderVars, mobileCall, batch, licenseCall, race, book>>

Now == InstantAt(now)

\* ---------------------------------------------------------------- helpers
RECURSIVE SumOver(_, _)
SumOver(f, S) ==
    IF S = {} THEN 0
    ELSE LET x == CHOOSE y \in S : TRUE
         IN f[x] + SumOver(f, S \ {x})

FreshId(used, ids) == CHOOSE i \in ids \ used : \A j \in ids \ used : i <= j

Without(f, id) == [k \in DOMAIN f \ {id} |-> f[k]]

ItemsOf(I, saleId) == {i \in DOMAIN I : I[i].saleId = saleId}
InstallmentsOf(N, saleId) == {i \in DOMAIN N : N[i].saleId = saleId}

\* calculateTotalAmount: sum of quantity * unitPrice
calculateTotalAmount(I, ids) ==
    SumOver([i \in ids |-> I[i].quantity * I[i].unitPrice], ids)

\* ------------------------------------------------- remote license client
\* `x?.trim()` is truthy: the field is neither null, empty nor blank.
IsSet(field) == field \notin {NULL, "", " "}

ClientConfigured(c) ==
    IsSet(c.backendBaseUrl) /\ IsSet(c.apiUserName) /\ IsSet(c.apiPassword)

NoLicenseCall == [outcome |-> "none", sent |-> NoDate]

\* updateClientLicenseExpiryOnly: login, fetch company, patch the expiry.
\* outcome "failed" is a thrown error; sent is the licenseExpiryDate of the
\* PATCH request, when the call gets that far.
updateClientLicenseExpiryOnly(c, licenseExpiryDate, remote) ==
    IF ~ClientConfigured(c)
    THEN [outcome |-> "failed", sent |-> NoDate]
    ELSE IF remote = "login_fail"
    THEN [outcome |-> "failed", sent |-> NoDate]
    ELSE [outcome |-> IF remote = "ok" THEN "ok" ELSE "failed",
          sent |-> licenseExpiryDate]

\* extendClientLicense: the license update, then the extension SMS to the
\* client and the directors; SMS failures are caught inside.
extendClientLicense(c, licenseExpiryDate, remote) ==
    updateClientLicenseExpiryOnly(c, licenseExpiryDate, remote)

\* ------------------------------------------------------ installment ledger
\* (mutant) the sum of all the sale's installments, whatever their status
PaidSumAnyStatus(N, saleId) ==
    LET own == InstallmentsOf(N, saleId)
    IN SumOver([i \in own |-> N[i].amount], own)

\* Sum of the amounts of the sale's PAID installments.
PaidSum(N, saleId) ==
    LET paid == {i \in InstallmentsOf(N, saleId) : N[i].status = "PAID"}
    IN SumOver([i \in paid |-> N[i].amount], paid)

\* (mutant) a COMPLETED sale that is no longer fully paid keeps its status
RecalcStatusNoRevert(sale, isFullyPaid) ==
    IF isFullyPaid THEN "COMPLETED" ELSE sale.status

\* The status recalcSalePaymentStatus writes.
RecalcStatus(sale, isFullyPaid) ==
    IF isFullyPaid THEN "COMPLETED"
    ELSE IF sale.status = "COMPLETED" THEN "PENDING"
    ELSE sale.status

\* (mutant) a sale that is already COMPLETED keeps its completedAt
KeepsCompletedAt(sale, isFullyPaid) ==
    IF isFullyPaid
    THEN (IF sale.status = "COMPLETED" THEN sale.completedAt ELSE Now)
    ELSE NoDate

RecalcCompletedAt(sale, isFullyPaid) ==
    IF isFullyPaid THEN Now ELSE NoDate

recalcSalePaymentStatus(sale, saleId, N) ==
    LET paidAmount == PaidSum(N, saleId)
        isFullyPaid == paidAmount >= sale.totalAmount
    IN [sale EXCEPT !.paidAmount = paidAmount,
                    !.status = RecalcStatus(sale, isFullyPaid),
                    !.completedAt = RecalcCompletedAt(sale, isFullyPaid)]

\* (mutant) the 3rd of paidAt's own month
SameMonth3rd(paidAt) ==
    DateUTC(getUTCFullYear(paidAt), getUTCMonth(paidAt), 3)

\* The license expiry for a payment: the 3rd of the month after paidAt.
NextMonth3rd(paidAt) ==
    LET y == getUTCFullYear(paidAt)
        m == getUTCMonth(paidAt)
    IN DateUTC(y, m + 1, 3)

\* The condition under which createInstallment updates the license.
ShouldUpdateLicense(status, c) == ClientConfigured(c)

\* (mutant) no try/catch around the license update and the notifications
LicenseErrorEscapes(licenseOutcome, notified) ==
    licenseOutcome = "failed" \/ notified = "throw"

\* Whether an error of the license update or of the notifications leaves the
\* try block of createInstallment: the catch only logs it.
LicenseErrorPropagates(licenseOutcome, notified) == FALSE

\* (mutant) the flag is cleared, the due date is kept
ClearExtensionFlagOnly(sale) ==
    [sale EXCEPT !.requestedPaymentDateExtension = FALSE]

\* The update that ends createInstallment.
ClearExtension(sale) ==
    [sale EXCEPT !.requestedPaymentDateExtension = FALSE,
                 !.paymentExtensionDueDate = NoDate]

\* ------------------------------------------------------------ bookkeeping
InstallmentOps == {"createInstallment", "updateInstallment", "deleteInstallment"}

\* The record of a service call:
\*   op, result     its name and what it returned: "ok" or the error thrown
\*   statusBefore   the sale's status before an installment call
\*   flagBefore     the sale's requestedPaymentDateExtension before createInstallment
\*   instId, instStatus, paidAt   the installment row the call wrote
\*   license        the remote license update: "none", "ok" or "failed"
\*   licenseSent    the licenseExpiryDate it sent in its PATCH request
\*   notified       sendPaymentReceivedNotifications: "none", "ok" or "throw"
\*   logs           the number of audit rows the call wrote
\*   extension      the paymentExtensionDueDate given to update
Op(name, result) ==
    [op |-> name, result |-> result, statusBefore |-> NONE, flagBefore |-> FALSE,
     instId |-> 0, instStatus |-> NONE, paidAt |-> NoDate,
     license |-> "none", licenseSent |-> NoDate, notified |-> "none",
     logs |-> 0, extension |-> NoDate]

FirstInstallmentError == "First installment amount cannot exceed the sale total"

\* A Sale row as prisma.sale.create leaves it: the schema's defaults.
NewSale(totalAmount) ==
    [status |-> "PENDING", totalAmount |-> totalAmount, paidAmount |-> 0,
     completedAt |-> NoDate, requestedPaymentDateExtension |-> FALSE,
     paymentExtensionDueDate |-> NoDate]

RECURSIVE FreshSeq(_, _, _)
FreshSeq(used, ids, n) ==
    IF n = 0 THEN <<>>
    ELSE LET i == FreshId(used, ids)
         IN <<i>> \o FreshSeq(used \cup {i}, ids, n - 1)

\* createInstallment on an existing sale, as a function of the tables it
\* starts from: the tables it leaves and the record of the call.  A
\* SaleInstallment row is modelled by the fields the ledger reads: saleId,
\* amount and status.
CreateInstallmentEffect(S, N, saleId, amount, paidAtIn, statusIn, remote, notify) ==
    LET paidAt == IF paidAtIn = NoDate THEN Now ELSE paidAtIn
        status == IF statusIn = NONE THEN "PAID" ELSE statusIn
        id == FreshId(DOMAIN N, InstIds)
        N1 == N @@ (id :> [saleId |-> saleId, amount |-> amount, status |-> status])
        S1 == [S EXCEPT ![saleId] = recalcSalePaymentStatus(@, saleId, N1)]
        extend == ShouldUpdateLicense(status, client)
        lic == IF extend
               THEN updateClientLicenseExpiryOnly(client, NextMonth3rd(paidAt), remote)
               ELSE NoLicenseCall
        notified == IF extend /\ lic.outcome = "ok" THEN notify ELSE "none"
        threw == lic.outcome = "failed" \/ notified = "throw"
        escaped == threw /\ LicenseErrorPropagates(lic.outcome, notified)
        S2 == IF escaped THEN S1 ELSE [S1 EXCEPT ![saleId] = ClearExtension(@)]
    IN [sales |-> S2,
        installments |-> N1,
        op |-> [Op("createInstallment", IF escaped THEN "license error" ELSE "ok")
                   EXCEPT !.statusBefore = S[saleId].status,
                          !.flagBefore = S[saleId].requestedPaymentDateExtension,
                          !.instId = id,
                          !.instStatus = status,
                          !.paidAt = paidAt,
                          !.license = lic.outcome,
                          !.licenseSent = lic.sent,
                          !.notified = notified,
                          !.logs = 1]]

\* ------------------------------------------------- job cards and expenses
MaxExpenses == 2

\* Job cards do not interact: every propagation reads and writes one job card
\* and the expenses linked to it.  The model follows one job card.
JobCardIds == {1}
\* The jobCardId of an expense that belongs to no job card (null).
NoJobCard == 0
ExpenseIds == 1..MaxExpenses

JobCardStatuses ==
    {"DRAFT", "PENDING_CLIENT_CONFIRMATION", "IN_PROGRESS", "COMPLETED", "CANCELLED"}
ExpenseStatuses == {"DRAFT", "PENDING", "APPROVED", "PAID", "REJECTED", "CANCELLED"}

\* (mutant) every job card status falls into the default branch
MapsToDefault(jobCardStatus) == "PENDING"

mapJobCardStatusToExpenseStatus(jobCardStatus) ==
    CASE jobCardStatus = "DRAFT" -> "DRAFT"
      [] jobCardStatus \in {"PENDING_CLIENT_CONFIRMATION", "IN_PROGRESS"} -> "PENDING"
      [] jobCardStatus = "COMPLETED" -> "PAID"
      [] jobCardStatus = "CANCELLED" -> "CANCELLED"
      [] OTHER -> "PENDING"

\* NULL: the expense status asks for no job card status.
mapExpenseStatusToJobCardStatus(expenseStatus) ==
    CASE expenseStatus = "PAID" -> "COMPLETED"
      [] expenseStatus = "CANCELLED" -> "CANCELLED"
      [] OTHER -> NULL

\* The terminalStates of syncJobCardFromExpenseStatus and of
\* syncExpensesWithJobCardStatus.
JobCardTerminalStates == {"COMPLETED", "CANCELLED"}
ExpenseTerminalStates == {"PAID", "REJECTED", "CANCELLED"}

\* findByJobCardId: the expenses linked to the job card, oldest first.  Ids
\* are handed out in creation order and no expense is deleted here.
RECURSIVE Ascending(_)
Ascending(S) ==
    IF S = {} THEN <<>>
    ELSE LET i == CHOOSE x \in S : \A y \in S : x <= y
         IN <<i>> \o Ascending(S \ {i})

LinkedTo(E, jobCardId) == {e \in DOMAIN E : E[e].jobCardId = jobCardId}
findByJobCardId(E, jobCardId) == Ascending(LinkedTo(E, jobCardId))

\* (mutant) only the triggering expense is looked at
OnlyTriggerHasStatus(E, jobCardId, expenseId, newStatus, wanted) ==
    newStatus = wanted

\* (mutant) the triggering expense never counts as having the wanted status
SiblingsOnlyHaveStatus(E, jobCardId, expenseId, newStatus, wanted) ==
    \A exp \in LinkedTo(E, jobCardId) : exp # expenseId /\ E[exp].status = wanted

\* allExpenses.every(...): every expense of the job card has the wanted
\* status, the triggering expense counted with its new status.
AllExpensesHaveStatus(E, jobCardId, expenseId, newStatus, wanted) ==
    \A exp \in LinkedTo(E, jobCardId) :
        IF exp = expenseId THEN newStatus = wanted ELSE E[exp].status = wanted

\* (mutant) no terminal-state guard
NeverKeepsJobCard(jobCardStatus, targetJobCardStatus) == FALSE

\* The guard of the reverse sync: a job card in a terminal state is left
\* alone unless it is being cancelled.
TerminalJobCardKept(jobCardStatus, targetJobCardStatus) ==
    jobCardStatus \in JobCardTerminalStates /\ targetJobCardStatus # "CANCELLED"

\* syncJobCardFromExpenseStatus(expense, newStatus, oldStatus): the job card
\* status it writes, or NULL when it returns without writing.  expense is the
\* row after the update.
syncJobCardFromExpenseStatus(J, E, expenseId, newStatus, oldStatus) ==
    LET jobCardId == E[expenseId].jobCardId
        targetJobCardStatus == mapExpenseStatusToJobCardStatus(newStatus)
    IN IF jobCardId = NoJobCard THEN NULL
       ELSE IF newStatus = oldStatus THEN NULL
       ELSE IF targetJobCardStatus = NULL THEN NULL
       ELSE IF jobCardId \notin DOMAIN J THEN NULL
       ELSE IF TerminalJobCardKept(J[jobCardId].status, targetJobCardStatus) THEN NULL
       ELSE IF /\ targetJobCardStatus = "COMPLETED"
               /\ ~AllExpensesHaveStatus(E, jobCardId, expenseId, newStatus, "PAID")
            THEN NULL
       ELSE IF /\ targetJobCardStatus = "CANCELLED"
               /\ ~AllExpensesHaveStatus(E, jobCardId, expenseId, newStatus, "CANCELLED")
            THEN NULL
       ELSE targetJobCardStatus

\* (mutant) only expenses not in a terminal state are cancelled
CancelsOpenOnly(expenseStatus, newJobCardStatus) ==
    IF expenseStatus \notin ExpenseTerminalStates
    THEN mapJobCardStatusToExpenseStatus(newJobCardStatus)
    ELSE NULL

\* (mutant) every expense gets the mapped status
MapsEveryExpense(expenseStatus, newJobCardStatus) ==
    mapJobCardStatusToExpenseStatus(newJobCardStatus)

\* The body of the loop of syncExpensesWithJobCardStatus: the status it gives
\* to updateStatus for one expense, or NULL when it leaves the expense alone.
ForwardStatus(expenseStatus, newJobCardStatus) ==
    IF expenseStatus \notin ExpenseTerminalStates
    THEN mapJobCardStatusToExpenseStatus(newJobCardStatus)
    ELSE IF newJobCardStatus = "CANCELLED" THEN "CANCELLED"
    ELSE NULL

\* (mutant) the reverse sync goes through the job card service's update, which
\* syncs the expenses when the status changed
ReverseWriteThroughService(oldJobCardStatus, newJobCardStatus) ==
    oldJobCardStatus # newJobCardStatus

\* Whether the job card write of the reverse sync starts a sync of the job
\* card's expenses: it is a plain prisma.jobCard.update.
ReverseWriteResyncs(oldJobCardStatus, newJobCardStatus) == FALSE

\* The propagation in flight:
\*   pc         "idle", "forward" (in the loop of syncExpensesWithJobCardStatus)
\*              or "reverse" (an expense was written, its reverse sync is next)
\*   queue      the expenses the loop has still to visit
\*   target     the job card status being propagated
\*   expenseId, newStatus, oldStatus   the arguments of the reverse sync
NoCall ==
    [pc |-> "idle", queue |-> <<>>, jobCardId |-> 0, target |-> NONE,
     expenseId |-> 0, newStatus |-> NONE, oldStatus |-> NONE]

\* The record of a job card / expense request:
\*   op           its name
\*   jobBefore    the job card's status when the request arrived
\*   target       the status given to the job card update
\*   before       the statuses of the linked expenses when the request arrived
\*   expenseId, oldStatus, newStatus   the expense an expense update wrote
\*   created      the expenses the request created
\*   updated      the expenses whose status the propagation wrote, in order
\*   writes       the expenses whose reverse sync wrote the job card, in order
\*   resyncs      how often a job card write started a sync of the expenses
SyncOp(name) ==
    [op |-> name, jobBefore |-> NONE, target |-> NONE, before |-> <<>>,
     expenseId |-> 0, oldStatus |-> NONE, newStatus |-> NONE, created |-> {},
     updated |-> <<>>, writes |-> <<>>, resyncs |-> 0]

LedgerAtRest ==
    /\ sales = <<>>
    /\ items = <<>>
    /\ installments = <<>>
    /\ client = CHOOSE c \in ClientConfigs : ClientConfigured(c)
    /\ now = 1
    /\ lastOp = Op("init", "ok")

SyncAtRest ==
    /\ jobCards = <<>>
    /\ expenses = <<>>
    /\ call = NoCall
    /\ lastSync = SyncOp("init")

\* ------------------------------------------- expense and JobExpense fields
\* One JobExpense and the expense derived from it: the field sync reads and
\* writes this pair only.
JobExpenseIds == {1}
NoJobExpense == 0

ExpenseAmounts == {100, 250}
ReceiptUrls == {NULL, "r.pdf"}
Descriptions == {NULL, "fuel"}
\* The free-text category of the JobExpense.
Category == "Transport"

SyncedFields == {"amount", "hasReceipt", "receiptUrl", "description"}
FieldRows ==
    [amount : ExpenseAmounts, hasReceipt : BOOLEAN,
     receiptUrl : ReceiptUrls, description : Descriptions]

\* The data of an update: the fields it supplies (the others are undefined)
\* and their values.
Unsupplied ==
    [amount |-> 100, hasReceipt |-> FALSE, receiptUrl |-> NULL, description |-> NULL]
\* The values an update carries: all four fields one way, or the other.
UpdateValues ==
    { [amount |-> 100, hasReceipt |-> FALSE, receiptUrl |-> NULL, description |-> NULL],
      [amount |-> 250, hasReceipt |-> TRUE, receiptUrl |-> "r.pdf", description |-> "fuel"] }
UpdateData ==
    {d \in [supplied : SUBSET SyncedFields, values : UpdateValues] :
        d.supplied = {} => d.values = Unsupplied}

\* row with the supplied fields of data written over it
Written(row, data) ==
    [f \in DOMAIN row |->
        IF f \in data.supplied THEN data.values[f] ELSE row[f]]

\* (mutant) only the amount is mirrored
SyncAmountOnly(jobExpense, data) ==
    IF "amount" \in data.supplied
    THEN [row |-> [jobExpense EXCEPT !.amount = data.values.amount], wrote |-> TRUE]
    ELSE [row |-> jobExpense, wrote |-> FALSE]

\* syncJobExpenseFromExpense past its guard: the JobExpense row it leaves and
\* whether it wrote it (hasChanges).
syncJobExpenseFromExpense(jobExpense, data) ==
    LET hasChanges == data.supplied \cap SyncedFields # {}
    IN IF hasChanges
       THEN [row |-> Written(jobExpense, data), wrote |-> TRUE]
       ELSE [row |-> jobExpense, wrote |-> FALSE]

\* The record of a request on the pair:
\*   op              its name
\*   supplied        the fields its data supplied
\*   linkBefore      the expense's jobExpenseId when the request arrived
\*   before          the JobExpense rows when the request arrived
\*   wrote           whether the field sync wrote the JobExpense
MirrorOp(name) ==
    [op |-> name, supplied |-> {}, linkBefore |-> NoJobExpense,
     before |-> <<>>, wrote |-> FALSE]

MirrorAtRest ==
    /\ expenseRows = <<>>
    /\ jobExpenses = <<>>
    /\ lastMirror = MirrorOp("init")

\* ------------------------------------------------------ payment reminders
\* getFullYear / getMonth: the calendar fields of a date in the server's zone.
getFullYear(dt) == dt.year
getMonth(dt) == dt.month - 1

\* a <= b for dates
DateLE(a, b) ==
    \/ a.year < b.year
    \/ a.year = b.year /\ a.month < b.month
    \/ a.year = b.year /\ a.month = b.month /\ a.day <= b.day

\* An instant: a UTC date and the milliseconds since its midnight.
EndOfDay == 86399999
Instant(date, ms) == [date |-> date, ms |-> ms]
NoInstant == Instant(NoDate, 0)
\* a <= b for instants
InstantLE(a, b) ==
    IF a.date = b.date THEN a.ms <= b.ms ELSE DateLE(a.date, b.date)

\* installments: { where: { status: "PAID" }, orderBy: { paidAt: "desc" },
\* take: 1 }: the set holding the PAID installment paid last, or no row.
LastPaid(rows) ==
    LET paid == {r \in rows : r.status = "PAID"}
    IN IF paid = {} THEN {}
       ELSE {CHOOSE r \in paid : \A q \in paid : DateLE(q.paidAt, r.paidAt)}

\* (mutant) the month of the run itself
ThisMonth(at) == getMonth(at)

\* (mutant) the previous month's year is the year of the run
PrevYearNoRollover(at) == getFullYear(at)

prevMonth(at) == IF getMonth(at) = 0 THEN 11 ELSE getMonth(at) - 1
prevYear(at) == IF getMonth(at) = 0 THEN getFullYear(at) - 1 ELSE getFullYear(at)

\* getSalesDueForReminder(now): the ids of the sales it returns.
getSalesDueForReminder(S, at) ==
    LET found == {id \in DOMAIN S :
                     /\ S[id].status # "CANCELLED"
                     /\ S[id].totalAmount > 0
                     /\ S[id].requestedPaymentDateExtension # TRUE}
    IN {id \in found :
           LET paid == S[id].paidAmount
               total == S[id].totalAmount
               lastPaid == LastPaid(S[id].installments)
           IN IF paid >= total THEN FALSE
              ELSE IF lastPaid = {} THEN TRUE
              ELSE \A r \in lastPaid :
                      /\ getFullYear(r.paidAt) = prevYear(at)
                      /\ getMonth(r.paidAt) = prevMonth(at)}

\* The day k days after a day.
DayAfter(at, k) == DateUTC(getUTCFullYear(at), getUTCMonth(at), at.day + k)

\* (mutant) the window starts on the day of the run
WindowFromToday(at, k) == DateUTC(getUTCFullYear(at), getUTCMonth(at), at.day + k - 1)

\* Date.UTC(y, m, d + k) for the y, m, d of the run: a bound of the window.
WindowDay(at, k) == DateUTC(getUTCFullYear(at), getUTCMonth(at), at.day + k)

\* getSalesDueForExtensionReminder(now): the ids of the sales it returns.
getSalesDueForExtensionReminder(S, at) ==
    LET start == Instant(WindowDay(at, 1), 0)
        end == Instant(WindowDay(at, 3), EndOfDay)
        found == {id \in DOMAIN S :
                     /\ S[id].status # "CANCELLED"
                     /\ S[id].requestedPaymentDateExtension = TRUE
                     /\ S[id].paymentExtensionDueDate # NoInstant
                     /\ InstantLE(start, S[id].paymentExtensionDueDate)
                     /\ InstantLE(S[id].paymentExtensionDueDate, end)
                     /\ S[id].totalAmount > 0}
    IN {id \in found : S[id].paidAmount < S[id].totalAmount}

\* Installment rows a sale may have: at most MaxPaidRows of them.
MaxPaidRows == 2
\* The reminder runs on the first day and on the MaxDays days after it.
MaxDays == 5

StartDates == {Date(2026, 2, 25), Date(2026, 12, 28)}
PaidAtDates == {Date(2025, 12, 31), Date(2026, 1, 10), Date(2026, 2, 20), Date(2026, 12, 5)}
InstallmentRows ==
    [amount : Prices, status : {"PAID"}, paidAt : PaidAtDates]
        \cup [amount : Prices, status : {"PENDING"}, paidAt : {Date(2026, 12, 20)}]
InstallmentSets == {rows \in SUBSET InstallmentRows : Cardinality(rows) <= MaxPaidRows}

RECURSIVE SumAmounts(_)
SumAmounts(rows) ==
    IF rows = {} THEN 0
    ELSE LET r == CHOOSE x \in rows : TRUE
         IN r.amount + SumAmounts(rows \ {r})

\* The extension due dates entered for a sale whose reminders start on
\* `start`: none, or the 4th day after it, at its first or last millisecond.
DueDates(start) ==
    {NoInstant, Instant(DayAfter(start, 4), 0), Instant(DayAfter(start, 4), EndOfDay)}

\* The Sale rows the reminders may find: paidAmount is the sum of the PAID
\* installments, as recalcSalePaymentStatus leaves it.
ReminderSaleRows(start) ==
    {[status |-> st, totalAmount |-> total,
      paidAmount |-> SumAmounts({r \in rows : r.status = "PAID"}),
      requestedPaymentDateExtension |-> flag,
      paymentExtensionDueDate |-> due,
      installments |-> rows] :
        st \in {"PENDING", "COMPLETED", "CANCELLED"},
        total \in {0, 500, 1500},
        flag \in BOOLEAN,
        due \in DueDates(start),
        rows \in InstallmentSets}

NoRun == [kind |-> "none", at |-> NoDate, selected |-> {}]

ReminderAtRest ==
    /\ reminderSales = <<>>
    /\ today = [date |-> NoDate, n |-> 0]
    /\ lastRun = NoRun
    /\ remindedOn = [ran |-> {}, selected |-> <<>>]

\* --------------------------------------------------------- normalizeMobile
\* A string is the sequence of its characters.
Digits == {"0", "1", "2", "3", "4", "5", "6", "7", "8", "9"}
Whitespace == {" "}

\* phone.trim() is empty
IsBlank(str) == \A k \in 1..Len(str) : str[k] \in Whitespace
\* phone.replace(/\D/g, "")
IsDigit(c) == c \in Digits
OnlyDigits(str) == SelectSeq(str, IsDigit)
\* str.startsWith(prefix)
startsWith(str, prefix) ==
    Len(str) >= Len(prefix) /\ SubSeq(str, 1, Len(prefix)) = prefix
\* str.slice(from) for from >= 0, str.slice(-n) for n > 0
sliceFrom(str, from) == SubSeq(str, from + 1, Len(str))
sliceLast(str, n) ==
    IF n >= Len(str) THEN str ELSE SubSeq(str, Len(str) - n + 1, Len(str))

\* The result of normalizeMobile: null, or a string.
Null == [isNull |-> TRUE, value |-> <<>>]
Str(str) == [isNull |-> FALSE, value |-> str]

\* normalizeMobile(phone); an absent phone (null) is NoPhone.
NoPhone == <<"null">>
normalizeMobile(phone) ==
    IF phone = NoPhone \/ phone = <<>> \/ IsBlank(phone) THEN Null
    ELSE LET digits == OnlyDigits(phone)
         IN IF Len(digits) = 9 /\ startsWith(digits, <<"7">>)
            THEN Str(<<"2", "5", "4">> \o digits)
            ELSE IF Len(digits) = 10 /\ startsWith(digits, <<"0">>)
            THEN Str(<<"2", "5", "4">> \o sliceFrom(digits, 1))
            ELSE IF Len(digits) = 12 /\ startsWith(digits, <<"2", "5", "4">>)
            THEN Str(digits)
            ELSE IF Len(digits) >= 9
            THEN (IF startsWith(digits, <<"2", "5", "4">>)
                  THEN Str(digits)
                  ELSE Str(<<"2", "5", "4">> \o sliceLast(digits, 9)))
            ELSE Null

\* The phone numbers tried: a prefix, a body and a suffix.
PhonePrefixes ==
    {<<>>, <<"0">>, <<"2", "5", "4">>, <<"+", "2", "5", "4">>, <<"1">>, <<" ">>}
PhoneBodies ==
    {<<>>, <<"7", "1", "2", "3">>,
     <<"7", "1", "2", "3", "4", "5", "6", "7", "8">>,
     <<"8", "1", "2", "3", "4", "5", "6", "7", "8">>,
     <<"7", "1", "2", " ", "3", "4", "5", " ", "6", "7", "8">>,
     <<"7", "1", "2", "3", "4", "5", "6", "7", "8", "9", "0">>}
PhoneSuffixes == {<<>>, <<" ">>, <<"x">>}
PhoneInputs ==
    {NoPhone} \cup {p \o b \o x : p \in PhonePrefixes, b \in PhoneBodies, x \in PhoneSuffixes}

MobileAtRest == mobileCall = [phone |-> NoPhone, done |-> FALSE, result |-> Null]

\* ---------------------------------------------------------- reminder runs
\* The sales a run may select and the directors it may find.
MaxDue == 2
MaxDirectors == 1

ShortPhone == <<"7", "1", "2", "3">>
ClientPhones == {NoPhone, ShortPhone, <<"0", "7", "1", "2", "3", "4", "5", "6", "7", "8">>}
AlternatePhones == {NoPhone, <<"7", "1", "2", "3", "4", "5", "6", "7", "9">>}
ReminderClients == [phone : ClientPhones, alternatePhone : AlternatePhones]
DirectorPhones == {ShortPhone, <<"2", "5", "4", "7", "1", "2", "3", "4", "5", "6", "7", "8">>}

SeqsUpTo(S, n) == UNION {[1..k -> S] : k \in 0..n}
DueSaleLists == SeqsUpTo(ReminderClients, MaxDue)
DirectorLists == SeqsUpTo(DirectorPhones, MaxDirectors)

\* normalizeMobile(client.phone) || normalizeMobile(client.alternatePhone)
ClientMobile(c) ==
    IF ~normalizeMobile(c.phone).isNull
    THEN normalizeMobile(c.phone)
    ELSE normalizeMobile(c.alternatePhone)

NoValidPhone == "No valid phone number"
SmsSendFailed == "SMS send failed"

\* if (!mobile) { skipped++; errors.push(...); continue; }
SkipSale(r) ==
    [r EXCEPT !.skipped = @ + 1,
              !.errors = Append(@, [saleNumber |-> r.i, reason |-> NoValidPhone])]

\* sendSingleSms was called for the sale or director (sale 0) at `mobile`.
Attempt(r, sale, mobile, ok) ==
    [r EXCEPT !.smsLog = Append(@, [sale |-> sale, mobile |-> mobile.value, ok |-> ok])]

\* await sendSingleSms returned: sent++; clientNamesSent.push(...)
SmsSent(r) ==
    [r EXCEPT !.sent = @ + 1, !.clientNamesSent = Append(@, r.i)]

\* (mutant) the error of sendSingleSms leaves the loop and the run
SmsFailureAborts(r) == [r EXCEPT !.pc = "threw"]

\* (mutant) sent is counted before the SMS is awaited
SmsFailureCountsSent(r) ==
    [r EXCEPT !.sent = @ + 1,
              !.errors = Append(@, [saleNumber |-> r.i, reason |-> SmsSendFailed])]

\* await sendSingleSms threw: catch (err) { errors.push(...) }
SmsFailed(r) ==
    [r EXCEPT !.errors = Append(@, [saleNumber |-> r.i, reason |-> SmsSendFailed])]

\* the for loop goes on to the next sale
NextSale(r) == IF r.pc = "sales" THEN [r EXCEPT !.i = @ + 1] ELSE r

\* The directors are told: always by the monthly run, by the extension run
\* only if (sent > 0).
TellsDirectors(r) == r.kind = "monthly" \/ r.sent > 0

NewBatch(kind, dueSales, directors) ==
    [kind |-> kind, dueSales |-> dueSales, directors |-> directors,
     pc |-> "sales", i |-> 1, sent |-> 0, skipped |-> 0, errors |-> <<>>,
     clientNamesSent |-> <<>>, directorSummarySent |-> 0, smsLog |-> <<>>]

BatchAtRest == batch = [NewBatch("none", <<>>, <<>>) EXCEPT !.pc = "rest"]

\* ------------------------------------------ remote license client: steps
\* The Client rows a license update may find, and no row at all.
NoClient == [backendBaseUrl |-> NULL, apiUserName |-> NULL, apiPassword |-> NULL,
             found |-> FALSE]
LicenseClients ==
    [backendBaseUrl : {"https://c.example/", "https://c.example", " ", NULL},
     apiUserName : {"api", "", NULL},
     apiPassword : {"pw", " ", NULL},
     found : {TRUE}] \cup {NoClient}

\* backendBaseUrl.replace(/\/$/, "")
StripSlash(url) == IF url = "https://c.example/" THEN "https://c.example" ELSE url

\* What a fetch gives: it rejects (network error), or a response with ok
\* (2xx) or not and, in its body, the field the step reads or not.
FetchResults ==
    [rejected : {TRUE}, ok : {FALSE}, field : {FALSE}]
        \cup [rejected : {FALSE}, ok : BOOLEAN, field : BOOLEAN]

Request(method, base, path) == [method |-> method, url |-> <<base, path>>]
LoginRequest(base) == Request("POST", base, "/auth/login")
CompanyRequest(base) == Request("GET", base, "/company")
UpdateRequest(base) == Request("PATCH", base, "/company/update/:code")

\* (mutant) a 2xx answer is taken without looking for its field
AcceptsAny2xx(res) == ~res.rejected /\ res.ok

\* The step goes on: the fetch resolved, response.ok, and data?.accessToken
\* (data?.code) is there.
Accepted(res) == ~res.rejected /\ res.ok /\ res.field

\* The PATCH needs only response.ok.
PatchAccepted(res) == ~res.rejected /\ res.ok

NewLicenseCall(c, licenseExpiryDate) ==
    [client |-> c, licenseExpiryDate |-> licenseExpiryDate, pc |-> "start",
     requests |-> <<>>, answers |-> <<>>]

LicenseAtRest == licenseCall = [NewLicenseCall(NoClient, NoDate) EXCEPT !.pc = "rest"]

\* ------------------------------------------- concurrent createInstallment
\* The two calls.
Callers == {1, 2}

\* (mutant) the sum takes every installment, PAID or not
SumOfAllInstallments(rows) ==
    SumOver([i \in DOMAIN rows |-> rows[i].amount], DOMAIN rows)

\* .filter((i) => i.status === "PAID").reduce(sum + Number(i.amount)) over
\* the installment rows `rows` (id -> row).
PaidSumOf(rows) ==
    SumOver([i \in DOMAIN rows |-> IF rows[i].status = "PAID" THEN rows[i].amount ELSE 0],
            DOMAIN rows)

\* prisma.sale.update of recalcSalePaymentStatus, on the row `sale` as it is
\* now, with the paidSum, totalAmount and status the call read before.
RecalcWrite(sale, read, at) ==
    IF read.paidSum >= read.totalAmount
    THEN [sale EXCEPT !.paidAmount = read.paidSum, !.status = "COMPLETED",
                      !.completedAt = at]
    ELSE [sale EXCEPT !.paidAmount = read.paidSum, !.completedAt = 0,
                      !.status = IF read.status = "COMPLETED" THEN "PENDING" ELSE @]

NoRead == [paidSum |-> 0, totalAmount |-> 0, status |-> "NONE", seen |-> {}]

NewRace(total, data) ==
    [sale |-> [totalAmount |-> total, paidAmount |-> 0, status |-> "PENDING",
               completedAt |-> 0, requestedPaymentDateExtension |-> TRUE],
     rows |-> <<>>,
     calls |-> [c \in Callers |-> [pc |-> "find", data |-> data[c], read |-> NoRead]],
     clock |-> 1,
     lastWriter |-> 0]

RaceAtRest ==
    race = [sale |-> [totalAmount |-> 0, paidAmount |-> 0, status |-> "NONE",
                      completedAt |-> 0, requestedPaymentDateExtension |-> FALSE],
            rows |-> <<>>, calls |-> <<>>, clock |-> 0, lastWriter |-> 0]

\* ------------------------------------------------- installment amounts
\* The amounts a caller may pass: negative, zero, positive.
AnyAmounts == {-500, 0, 500}

\* UpdateSaleInstallmentData: the fields given are those in `has`.
InstallmentUpdates ==
    [has : SUBSET {"amount", "status"}, amount : AnyAmounts, status : InstStatuses]

\* updateInstallment(id, data), as a function of the tables it starts from.
UpdateInstallmentEffect(S, N, id, data) ==
    LET saleId == N[id].saleId
        N1 == [N EXCEPT ![id] =
                  [@ EXCEPT !.amount = IF "amount" \in data.has THEN data.amount ELSE @,
                            !.status = IF "status" \in data.has THEN data.status ELSE @]]
    IN [sales |-> [S EXCEPT ![saleId] = recalcSalePaymentStatus(@, saleId, N1)],
        installments |-> N1]

BookAtRest == book = [sales |-> <<>>, installments |-> <<>>, returned |-> <<>>]

\* ------------------------------------- concurrent job card / expense calls
\* The two requests in flight.
Requesters == {1, 2}
\* The expenses linked to the job card.
LinkedIds == {1, 2}

\* markAsPaid(id) and jobCardService.update(jobCard, {status}).
PayRequests == [kind : {"markAsPaid"}, id : LinkedIds, status : {"PAID"}]
JobCardRequests == [kind : {"update"}, id : JobCardIds, status : {"CANCELLED", "COMPLETED"}]

\* The locals of a request:
\*   pc         the database call it makes next
\*   queue      the expenses syncExpensesWithJobCardStatus read and has still
\*              to visit, each with the status read
\*   id, newStatus, oldStatus   the expenseService.update call in progress
NewRequest(req) ==
    [req |-> req,
     pc |-> IF req.kind = "markAsPaid" THEN "findExpense" ELSE "findJobCard",
     queue |-> <<>>,
     id |-> IF req.kind = "markAsPaid" THEN req.id ELSE 0,
     newStatus |-> IF req.kind = "markAsPaid" THEN req.status ELSE NONE,
     oldStatus |-> NONE,
     oldJobCardStatus |-> NONE]

\* Where a request goes when its expenseService.update call returns: back
\* into the loop of syncExpensesWithJobCardStatus, or to its end.
RECURSIVE Returns(_)
Returns(r) ==
    IF r.queue = <<>> THEN [r EXCEPT !.pc = "done"]
    ELSE LET next == Head(r.queue)
             status == ForwardStatus(next.status, r.req.status)
         IN IF status = NULL
            THEN Returns([r EXCEPT !.queue = Tail(@)])
            ELSE [r EXCEPT !.queue = Tail(@), !.pc = "findExpense",
                           !.id = next.id, !.newStatus = status, !.oldStatus = NONE]

ConcAtRest ==
    conc = [jobCard |-> [status |-> NONE], expenses |-> <<>>, requests |-> <<>>,
            start |-> [jobCard |-> [status |-> NONE], expenses |-> <<>>]]

\* ------------------------------------------------------------------ state
\* paidAt as a caller gives it: absent (now is used) or a date.
PaidAtInputs == {NoDate, InstantAt(1)}
ItemInputs == [quantity : Quantities, unitPrice : Prices]
ItemLists == UNION {[1..n -> ItemInputs] : n \in 0..MaxItems}
FirstInstallments == [amount : Amounts \cup {0}, paidAt : PaidAtInputs]

\* The answers the remote API can give: a client without credentials has no
\* remote API that could answer.
RemoteChoices == IF ClientConfigured(client) THEN RemoteOutcomes ELSE {"ok"}
\* The notifications are attempted only after a license update that worked.
NotifyChoices(remote) ==
    IF ClientConfigured(client) /\ remote = "ok" THEN NotifyOutcomes ELSE {"ok"}

Init ==
    /\ sales = <<>>
    /\ items = <<>>
    /\ installments = <<>>
    /\ client \in ClientConfigs
    /\ now = 1
    /\ lastOp = Op("init", "ok")
    /\ SyncAtRest
    /\ MirrorAtRest
    /\ ReminderAtRest
    /\ MobileAtRest
    /\ BatchAtRest
    /\ LicenseAtRest
    /\ RaceAtRest
    /\ BookAtRest
    /\ ConcAtRest

\* The clock moves on between requests.
Tick ==
    /\ now < MaxTick
    /\ now' = now + 1
    /\ UNCHANGED <<sales, items, installments, client, lastOp>>
    /\ UNCHANGED outsideLedger

\* create(data): the sale with its items, then the optional first installment.
Create(itemList, first, remote, notify) ==
    /\ DOMAIN sales # SaleIds
    /\ Cardinality(ItemIds \ DOMAIN items) >= Len(itemList)
    /\ InstIds # DOMAIN installments
    /\ IF Len(itemList) = 0
       THEN /\ lastOp' = Op("create", "At least one sale item is required")
            /\ UNCHANGED <<sales, items, installments>>
       ELSE LET id == FreshId(DOMAIN sales, SaleIds)
                ids == FreshSeq(DOMAIN items, ItemIds, Len(itemList))
                newIds == {ids[k] : k \in 1..Len(ids)}
                I1 == items @@ [i \in newIds |->
                          LET k == CHOOSE j \in 1..Len(ids) : ids[j] = i
                          IN [saleId |-> id, quantity |-> itemList[k].quantity,
                              unitPrice |-> itemList[k].unitPrice]]
                totalAmount == calculateTotalAmount(I1, newIds)
                S1 == sales @@ (id :> NewSale(totalAmount))
                logs == 1 + Len(itemList)
            IN /\ items' = I1
               /\ IF first.amount > 0
                  THEN IF first.amount > totalAmount
                       THEN /\ sales' = S1
                            /\ installments' = installments
                            /\ lastOp' = [Op("create", FirstInstallmentError)
                                            EXCEPT !.logs = logs]
                       ELSE LET e == CreateInstallmentEffect(S1, installments, id,
                                         first.amount, first.paidAt, "PAID", remote, notify)
                            IN /\ sales' = e.sales
                               /\ installments' = e.installments
                               /\ lastOp' = [e.op EXCEPT !.op = "create",
                                                         !.statusBefore = NONE,
                                                         !.logs = logs + e.op.logs]
                  ELSE /\ sales' = S1
                       /\ installments' = installments
                       /\ lastOp' = [Op("create", "ok") EXCEPT !.logs = logs]
    /\ UNCHANGED <<client, now>>
    /\ UNCHANGED outsideLedger

\* update(id, data) with data.paymentExtensionDueDate (absent, null or an ISO
\* date) and data.requestedPaymentDateExtension (absent, true or false).  The
\* license is extended before the sale is written: an error of
\* extendClientLicense leaves update before prisma.sale.update.
ExtInputs ==
    {[given |-> FALSE, date |-> NoDate]}
        \cup [given : {TRUE}, date : ExtensionDates \cup {NoDate}]
FlagInputs == {NONE, "true", "false"}

Update(id, ext, flag, remote) ==
    /\ id \in DOMAIN sales
    /\ LET own == ItemsOf(items, id)
           extends == ext.given /\ ext.date # NoDate
           lic == IF extends THEN extendClientLicense(client, ext.date, remote)
                  ELSE NoLicenseCall
           base == [Op("update", "ok") EXCEPT !.license = lic.outcome,
                                              !.licenseSent = lic.sent,
                                              !.extension = ext.date]
       IN IF lic.outcome = "failed"
          THEN /\ lastOp' = [base EXCEPT !.result = "license error"]
               /\ UNCHANGED sales
          ELSE /\ sales' = [sales EXCEPT ![id] =
                     [@ EXCEPT !.totalAmount =
                                   IF own # {} THEN calculateTotalAmount(items, own)
                                   ELSE @,
                               !.paymentExtensionDueDate =
                                   IF ext.given THEN ext.date ELSE @,
                               !.requestedPaymentDateExtension =
                                   IF flag = NONE THEN @ ELSE flag = "true"]]
               /\ lastOp' = [base EXCEPT !.logs = 1]
    /\ UNCHANGED <<items, installments, client, now>>
    /\ UNCHANGED outsideLedger

\* remove(id): soft delete.
Remove(id) ==
    /\ id \in DOMAIN sales
    /\ sales' = [sales EXCEPT ![id].status = "CANCELLED"]
    /\ lastOp' = [Op("remove", "ok") EXCEPT !.logs = 1]
    /\ UNCHANGED <<items, installments, client, now>>
    /\ UNCHANGED outsideLedger

\* The sale's totalAmount after one of its items was written.
WithTotal(S, saleId, I) ==
    LET own == ItemsOf(I, saleId)
    IN [S EXCEPT ![saleId].totalAmount =
            IF own # {} THEN calculateTotalAmount(I, own) ELSE 0]

CreateItem(saleId, quantity, unitPrice) ==
    /\ ItemIds # DOMAIN items
    /\ saleId \in DOMAIN sales
    /\ LET id == FreshId(DOMAIN items, ItemIds)
           I1 == items @@ (id :> [saleId |-> saleId, quantity |-> quantity,
                                  unitPrice |-> unitPrice])
       IN /\ items' = I1
          /\ sales' = WithTotal(sales, saleId, I1)
    /\ lastOp' = [Op("createItem", "ok") EXCEPT !.logs = 1]
    /\ UNCHANGED <<installments, client, now>>
    /\ UNCHANGED outsideLedger

\* updateItem(id, data): quantity 0 / unitPrice 0 stand for an absent field.
UpdateItem(id, quantity, unitPrice) ==
    /\ id \in DOMAIN items
    /\ LET I1 == [items EXCEPT ![id] =
                     [@ EXCEPT !.quantity = IF quantity = 0 THEN @ ELSE quantity,
                               !.unitPrice = IF unitPrice = 0 THEN @ ELSE unitPrice]]
       IN /\ items' = I1
          /\ sales' = WithTotal(sales, items[id].saleId, I1)
    /\ lastOp' = [Op("updateItem", "ok") EXCEPT !.logs = 1]
    /\ UNCHANGED <<installments, client, now>>
    /\ UNCHANGED outsideLedger

DeleteItem(id) ==
    /\ id \in DOMAIN items
    /\ LET I1 == Without(items, id)
       IN /\ items' = I1
          /\ sales' = WithTotal(sales, items[id].saleId, I1)
    /\ lastOp' = [Op("deleteItem", "ok") EXCEPT !.logs = 1]
    /\ UNCHANGED <<installments, client, now>>
    /\ UNCHANGED outsideLedger

CreateInstallment(saleId, amount, paidAt, status, remote, notify) ==
    /\ InstIds # DOMAIN installments
    /\ saleId \in DOMAIN sales
    /\ LET e == CreateInstallmentEffect(sales, installments, saleId, amount,
                                        paidAt, status, remote, notify)
       IN /\ sales' = e.sales
          /\ installments' = e.installments
          /\ lastOp' = e.op
    /\ UNCHANGED <<items, client, now>>
    /\ UNCHANGED outsideLedger

\* updateInstallment(id, data): amount 0 and status NONE stand for an absent
\* field.
UpdateInstallment(id, amount, status) ==
    /\ id \in DOMAIN installments
    /\ LET saleId == installments[id].saleId
           N1 == [installments EXCEPT ![id] =
                     [@ EXCEPT !.amount = IF amount = 0 THEN @ ELSE amount,
                               !.status = IF status = NONE THEN @ ELSE status]]
       IN /\ installments' = N1
          /\ sales' = [sales EXCEPT ![saleId] = recalcSalePaymentStatus(@, saleId, N1)]
          /\ lastOp' = [Op("updateInstallment", "ok")
                           EXCEPT !.statusBefore = sales[saleId].status,
                                  !.instId = id,
                                  !.instStatus = N1[id].status,
                                  !.logs = 1]
    /\ UNCHANGED <<items, client, now>>
    /\ UNCHANGED outsideLedger

DeleteInstallment(id) ==
    /\ id \in DOMAIN installments
    /\ LET saleId == installments[id].saleId
           N1 == Without(installments, id)
       IN /\ installments' = N1
          /\ sales' = [sales EXCEPT ![saleId] = recalcSalePaymentStatus(@, saleId, N1)]
          /\ lastOp' = [Op("deleteInstallment", "ok")
                           EXCEPT !.statusBefore = sales[saleId].status,
                                  !.instId = id,
                                  !.instStatus = installments[id].status,
                                  !.logs = 1]
    /\ UNCHANGED <<items, client, now>>
    /\ UNCHANGED outsideLedger

Next ==
    \/ Tick
    \/ \E l \in ItemLists, f \in FirstInstallments, r \in RemoteChoices :
          \E n \in NotifyChoices(r) : Create(l, f, r, n)
    \/ \E id \in SaleIds, e \in ExtInputs, f \in FlagInputs :
          \E r \in (IF e.date # NoDate THEN RemoteChoices ELSE {"ok"}) :
             Update(id, e, f, r)
    \/ \E id \in SaleIds : Remove(id)
    \/ \E id \in SaleIds, q \in Quantities, p \in Prices : CreateItem(id, q, p)
    \/ \E id \in ItemIds, q \in Quantities \cup {0}, p \in Prices \cup {0} :
          UpdateItem(id, q, p)
    \/ \E id \in ItemIds : DeleteItem(id)
    \/ \E id \in SaleIds, a \in Amounts, d \in PaidAtInputs,
          s \in InstStatuses \cup {NONE}, r \in RemoteChoices :
          \E n \in NotifyChoices(r) : CreateInstallment(id, a, d, s, r, n)
    \/ \E id \in InstIds, a \in Amounts \cup {0}, s \in InstStatuses \cup {NONE} :
          UpdateInstallment(id, a, s)
    \/ \E id \in InstIds : DeleteInstallment(id)

Spec == Init /\ [][Next]_vars

\* ------------------------------------------- job cards and expenses: state
\* One request at a time: a request is taken when no propagation is in flight.
Idle == call.pc = "idle"

\* Where the propagation goes on: the rest of the loop, or back to the caller.
Resume(queue) ==
    IF queue = <<>> THEN NoCall
    ELSE [call EXCEPT !.pc = "forward", !.queue = queue, !.expenseId = 0,
                      !.newStatus = NONE, !.oldStatus = NONE]

StatusesOf(E, ids) == [e \in ids |-> E[e].status]

\* createFromJobExpense for n JobExpense rows of the job card: the Expense
\* rows it adds, none when no category matches (the error is caught by the
\* caller).
RECURSIVE createFromJobExpense(_, _, _, _, _)
createFromJobExpense(E, jobCardId, jobCardStatus, n, matched) ==
    IF n = 0 \/ ~matched THEN E
    ELSE LET id == FreshId(DOMAIN E, ExpenseIds)
         IN createFromJobExpense(
                E @@ (id :> [jobCardId |-> jobCardId,
                             status |-> mapJobCardStatusToExpenseStatus(jobCardStatus)]),
                jobCardId, jobCardStatus, n - 1, matched)

SyncInit ==
    /\ SyncAtRest
    /\ LedgerAtRest
    /\ MirrorAtRest
    /\ ReminderAtRest
    /\ MobileAtRest
    /\ BatchAtRest
    /\ LicenseAtRest
    /\ RaceAtRest
    /\ BookAtRest
    /\ ConcAtRest

\* jobCardService.create(data) with data.status and n entries in data.expenses.
JobCardCreate(status, n, matched) ==
    /\ Idle
    /\ DOMAIN jobCards # JobCardIds
    /\ Cardinality(ExpenseIds \ DOMAIN expenses) >= n
    /\ LET id == FreshId(DOMAIN jobCards, JobCardIds)
           E1 == createFromJobExpense(expenses, id, status, n, matched)
       IN /\ jobCards' = jobCards @@ (id :> [status |-> status])
          /\ expenses' = E1
          /\ lastSync' = [SyncOp("jobCardCreate")
                             EXCEPT !.target = status,
                                    !.created = DOMAIN E1 \ DOMAIN expenses]
    /\ UNCHANGED call
    /\ UNCHANGED outsideSync

\* jobCardService.createExpense(data): a JobExpense row and its Expense.
JobExpenseCreate(jobCardId, matched) ==
    /\ Idle
    /\ jobCardId \in DOMAIN jobCards
    /\ ExpenseIds # DOMAIN expenses
    /\ LET E1 == createFromJobExpense(expenses, jobCardId, jobCards[jobCardId].status,
                                      1, matched)
       IN /\ expenses' = E1
          /\ lastSync' = [SyncOp("jobExpenseCreate")
                             EXCEPT !.jobBefore = jobCards[jobCardId].status,
                                    !.created = DOMAIN E1 \ DOMAIN expenses]
    /\ UNCHANGED <<jobCards, call>>
    /\ UNCHANGED outsideSync

\* expenseService.create(data): an expense entered by a user, standalone
\* (no jobCardId) or linked to the job card.
ExpenseCreate(jobCardId, status) ==
    /\ Idle
    /\ jobCardId # NoJobCard => jobCardId \in DOMAIN jobCards
    /\ ExpenseIds # DOMAIN expenses
    /\ LET id == FreshId(DOMAIN expenses, ExpenseIds)
       IN /\ expenses' = expenses @@ (id :> [jobCardId |-> jobCardId, status |-> status])
          /\ lastSync' = [SyncOp("expenseCreate") EXCEPT !.created = {id}]
    /\ UNCHANGED <<jobCards, call>>
    /\ UNCHANGED outsideSync

\* jobCardService.update(id, data): the job card is written, then its
\* expenses are synced when data.status differs from the old status.
JobCardUpdate(id, status) ==
    /\ Idle
    /\ id \in DOMAIN jobCards
    /\ LET old == jobCards[id].status
           queue == IF status # NONE /\ old # status
                    THEN findByJobCardId(expenses, id) ELSE <<>>
       IN /\ jobCards' = [jobCards EXCEPT ![id].status =
                             IF status = NONE THEN @ ELSE status]
          /\ call' = IF queue = <<>> THEN NoCall
                     ELSE [NoCall EXCEPT !.pc = "forward", !.queue = queue,
                                         !.jobCardId = id, !.target = status]
          /\ lastSync' = [SyncOp("jobCardUpdate")
                             EXCEPT !.jobBefore = old,
                                    !.target = status,
                                    !.before = StatusesOf(expenses, LinkedTo(expenses, id))]
    /\ UNCHANGED expenses
    /\ UNCHANGED outsideSync

\* One turn of the loop of syncExpensesWithJobCardStatus: updateStatus on the
\* next expense, or nothing.  expenseService.update writes the expense and
\* then syncs the job card from it.
ForwardStep ==
    /\ call.pc = "forward"
    /\ LET e == Head(call.queue)
           old == expenses[e].status
           status == ForwardStatus(old, call.target)
       IN IF status = NULL
          THEN /\ call' = Resume(Tail(call.queue))
               /\ UNCHANGED <<expenses, lastSync>>
          ELSE /\ expenses' = [expenses EXCEPT ![e].status = status]
               /\ lastSync' = [lastSync EXCEPT !.updated = Append(@, e)]
               /\ call' = [call EXCEPT !.pc = "reverse", !.queue = Tail(@),
                                       !.expenseId = e,
                                       !.newStatus = status,
                                       !.oldStatus = old]
    /\ UNCHANGED jobCards
    /\ UNCHANGED outsideSync

\* syncJobCardFromExpenseStatus for the expense just written.
ReverseStep ==
    /\ call.pc = "reverse"
    /\ LET jobCardId == expenses[call.expenseId].jobCardId
           target == syncJobCardFromExpenseStatus(jobCards, expenses, call.expenseId,
                                                  call.newStatus, call.oldStatus)
       IN IF target = NULL
          THEN /\ call' = Resume(call.queue)
               /\ UNCHANGED <<jobCards, lastSync>>
          ELSE LET resync == ReverseWriteResyncs(jobCards[jobCardId].status, target)
                   queue == IF resync
                            THEN call.queue \o findByJobCardId(expenses, jobCardId)
                            ELSE call.queue
               IN /\ jobCards' = [jobCards EXCEPT ![jobCardId].status = target]
                  /\ lastSync' = [lastSync EXCEPT
                                     !.writes = Append(@, call.expenseId),
                                     !.resyncs = IF resync THEN @ + 1 ELSE @]
                  /\ call' = IF queue = <<>> THEN NoCall
                             ELSE [call EXCEPT !.pc = "forward", !.queue = queue,
                                       !.jobCardId = jobCardId,
                                       !.target = IF resync THEN target ELSE @,
                                       !.expenseId = 0, !.newStatus = NONE,
                                       !.oldStatus = NONE]
    /\ UNCHANGED expenses
    /\ UNCHANGED outsideSync

\* expenseService.update(id, data) as a user calls it, directly or through
\* updateStatus, approve, markAsPaid, reject and cancel: data.status is a
\* status or absent.
ExpenseUpdate(id, status) ==
    /\ Idle
    /\ id \in DOMAIN expenses
    /\ LET old == expenses[id].status
           jobCardId == expenses[id].jobCardId
           linked == jobCardId # NoJobCard
       IN /\ expenses' = [expenses EXCEPT ![id].status =
                             IF status = NONE THEN @ ELSE status]
          /\ lastSync' = [SyncOp("expenseUpdate")
                             EXCEPT !.jobBefore = IF linked THEN jobCards[jobCardId].status
                                                  ELSE NONE,
                                    !.before = IF linked
                                               THEN StatusesOf(expenses,
                                                        LinkedTo(expenses, jobCardId))
                                               ELSE <<>>,
                                    !.expenseId = id,
                                    !.oldStatus = old,
                                    !.newStatus = status]
          /\ call' = IF status # NONE /\ linked
                     THEN [NoCall EXCEPT !.pc = "reverse", !.expenseId = id,
                                         !.newStatus = status, !.oldStatus = old]
                     ELSE NoCall
    /\ UNCHANGED jobCards
    /\ UNCHANGED outsideSync

SyncNext ==
    \/ \E s \in JobCardStatuses, n \in 0..MaxExpenses, m \in BOOLEAN :
          JobCardCreate(s, n, m)
    \/ \E j \in JobCardIds, m \in BOOLEAN : JobExpenseCreate(j, m)
    \/ \E j \in JobCardIds \cup {NoJobCard}, s \in ExpenseStatuses : ExpenseCreate(j, s)
    \/ \E j \in JobCardIds, s \in JobCardStatuses \cup {NONE} : JobCardUpdate(j, s)
    \/ ForwardStep
    \/ ReverseStep
    \/ \E e \in ExpenseIds, s \in ExpenseStatuses \cup {NONE} : ExpenseUpdate(e, s)

SyncSpec == SyncInit /\ [][SyncNext]_vars

\* The propagation steps are the continuation of a request being served:
\* they are taken as long as they are enabled.
SyncFairSpec ==
    SyncInit /\ [][SyncNext]_vars /\ WF_vars(ForwardStep) /\ WF_vars(ReverseStep)

\* ----------------------------------- expense and JobExpense fields: state
MirrorInit ==
    /\ MirrorAtRest
    /\ LedgerAtRest
    /\ SyncAtRest
    /\ ReminderAtRest
    /\ MobileAtRest
    /\ BatchAtRest
    /\ LicenseAtRest
    /\ RaceAtRest
    /\ BookAtRest
    /\ ConcAtRest

\* jobCardService.createExpense(data): the JobExpense, then the expense
\* created from it by createFromJobExpense (none when no category matches).
JobExpenseCreateFields(row, matched) ==
    /\ DOMAIN jobExpenses # JobExpenseIds
    /\ LET id == FreshId(DOMAIN jobExpenses, JobExpenseIds)
           description == IF row.description \in {NULL, ""} THEN Category
                          ELSE row.description
       IN /\ jobExpenses' = jobExpenses @@ (id :> row)
          /\ expenseRows' =
                IF matched
                THEN expenseRows @@
                        (id :> [jobExpenseId |-> id, amount |-> row.amount,
                                hasReceipt |-> row.hasReceipt,
                                receiptUrl |-> row.receiptUrl,
                                description |-> description])
                ELSE expenseRows
    /\ lastMirror' = MirrorOp("jobExpenseCreate")
    /\ UNCHANGED outsideMirror

\* The part of expenseService.update(id, data) that writes the expense and
\* syncs its JobExpense: the two tables it leaves and whether the JobExpense
\* was written.  unlink: data.jobExpenseId is null.
ExpenseUpdateEffect(R, JE, id, data, unlink) ==
    LET oldExpense == R[id]
        expense == [Written(oldExpense, data) EXCEPT
                       !.jobExpenseId = IF unlink THEN NoJobExpense ELSE @]
        synced == IF /\ oldExpense.jobExpenseId # NoJobExpense
                     /\ expense.jobExpenseId # NoJobExpense
                  THEN syncJobExpenseFromExpense(JE[expense.jobExpenseId], data)
                  ELSE [row |-> <<>>, wrote |-> FALSE]
    IN [expenseRows |-> [R EXCEPT ![id] = expense],
        jobExpenses |-> IF synced.wrote
                        THEN [JE EXCEPT ![expense.jobExpenseId] = synced.row]
                        ELSE JE,
        wrote |-> synced.wrote]

ExpenseUpdateFields(id, data, unlink) ==
    /\ id \in DOMAIN expenseRows
    /\ LET e == ExpenseUpdateEffect(expenseRows, jobExpenses, id, data, unlink)
       IN /\ expenseRows' = e.expenseRows
          /\ jobExpenses' = e.jobExpenses
          /\ lastMirror' = [MirrorOp("expenseUpdate")
                               EXCEPT !.supplied = data.supplied,
                                      !.linkBefore = expenseRows[id].jobExpenseId,
                                      !.before = jobExpenses,
                                      !.wrote = e.wrote]
    /\ UNCHANGED outsideMirror

\* findByJobExpenseId: the expense linked to the JobExpense, if any.
LinkedExpenses(R, jobExpenseId) == {e \in DOMAIN R : R[e].jobExpenseId = jobExpenseId}

\* jobCardService.updateExpense(id, data): the JobExpense is written, then the
\* linked expense is updated with the supplied fields.
JobExpenseUpdateFields(id, data) ==
    /\ id \in DOMAIN jobExpenses
    /\ LET JE1 == [jobExpenses EXCEPT ![id] = Written(@, data)]
           linked == LinkedExpenses(expenseRows, id)
       IN IF linked # {} /\ data.supplied # {}
          THEN LET linkedExpense == CHOOSE e \in linked : TRUE
                   e == ExpenseUpdateEffect(expenseRows, JE1, linkedExpense, data, FALSE)
               IN /\ expenseRows' = e.expenseRows
                  /\ jobExpenses' = e.jobExpenses
                  /\ lastMirror' = [MirrorOp("jobExpenseUpdate")
                                       EXCEPT !.supplied = data.supplied,
                                              !.linkBefore = id,
                                              !.before = jobExpenses,
                                              !.wrote = e.wrote]
          ELSE /\ jobExpenses' = JE1
               /\ UNCHANGED expenseRows
               /\ lastMirror' = [MirrorOp("jobExpenseUpdate")
                                    EXCEPT !.supplied = data.supplied,
                                           !.before = jobExpenses]
    /\ UNCHANGED outsideMirror

MirrorNext ==
    \/ \E row \in FieldRows, m \in BOOLEAN : JobExpenseCreateFields(row, m)
    \/ \E id \in JobExpenseIds, d \in UpdateData, u \in BOOLEAN :
          ExpenseUpdateFields(id, d, u)
    \/ \E id \in JobExpenseIds, d \in UpdateData : JobExpenseUpdateFields(id, d)

MirrorSpec == MirrorInit /\ [][MirrorNext]_vars

\* ------------------------------------------------ payment reminders: state
ReminderInit ==
    /\ \E start \in StartDates :
          /\ today = [date |-> start, n |-> 0]
          /\ reminderSales \in [SaleIds -> ReminderSaleRows(start)]
    /\ lastRun = NoRun
    /\ remindedOn = [ran |-> {}, selected |-> [id \in SaleIds |-> {}]]
    /\ LedgerAtRest
    /\ SyncAtRest
    /\ MirrorAtRest
    /\ MobileAtRest
    /\ BatchAtRest
    /\ LicenseAtRest
    /\ RaceAtRest
    /\ BookAtRest
    /\ ConcAtRest

\* The next day begins: the daily cron job has run.
NextDay ==
    /\ today.n < MaxDays
    /\ today.date \in remindedOn.ran
    /\ today' = [date |-> DayAfter(today.date, 1), n |-> today.n + 1]
    /\ lastRun' = NoRun
    /\ UNCHANGED <<reminderSales, remindedOn>>
    /\ UNCHANGED outsideReminder

\* sendPaymentReminders(now): the sales it looks up.
MonthlyRun ==
    /\ lastRun' = [kind |-> "monthly", at |-> today.date,
                   selected |-> getSalesDueForReminder(reminderSales, today.date)]
    /\ UNCHANGED <<reminderSales, today, remindedOn>>
    /\ UNCHANGED outsideReminder

\* sendPaymentExtensionReminders(now), run by the daily cron job: the sales
\* it looks up.
ExtensionRun ==
    /\ today.date \notin remindedOn.ran
    /\ LET selected == getSalesDueForExtensionReminder(reminderSales, today.date)
       IN /\ lastRun' = [kind |-> "extension", at |-> today.date, selected |-> selected]
          /\ remindedOn' =
                [ran |-> remindedOn.ran \cup {today.date},
                 selected |-> [id \in SaleIds |->
                                  IF id \in selected
                                  THEN remindedOn.selected[id] \cup {today.date}
                                  ELSE remindedOn.selected[id]]]
    /\ UNCHANGED <<reminderSales, today>>
    /\ UNCHANGED outsideReminder

ReminderNext ==
    \/ NextDay
    \/ MonthlyRun
    \/ ExtensionRun

ReminderSpec == ReminderInit /\ [][ReminderNext]_vars

\* -------------------------------------------------- normalizeMobile: state
MobileInit ==
    /\ \E phone \in PhoneInputs :
          mobileCall = [phone |-> phone, done |-> FALSE, result |-> Null]
    /\ LedgerAtRest
    /\ SyncAtRest
    /\ MirrorAtRest
    /\ ReminderAtRest
    /\ BatchAtRest
    /\ LicenseAtRest
    /\ RaceAtRest
    /\ BookAtRest
    /\ ConcAtRest

NormalizeMobile ==
    /\ ~mobileCall.done
    /\ mobileCall' = [mobileCall EXCEPT !.done = TRUE,
                                        !.result = normalizeMobile(mobileCall.phone)]
    /\ UNCHANGED outsideMobile

MobileNext == NormalizeMobile

MobileSpec == MobileInit /\ [][MobileNext]_vars

\* ----------------------------------------------------- reminder runs: state
BatchInit ==
    /\ \E kind \in {"monthly", "extension"}, dueSales \in DueSaleLists,
          directors \in DirectorLists :
          batch = NewBatch(kind, dueSales, directors)
    /\ LedgerAtRest
    /\ SyncAtRest
    /\ MirrorAtRest
    /\ ReminderAtRest
    /\ MobileAtRest
    /\ LicenseAtRest
    /\ RaceAtRest
    /\ BookAtRest
    /\ ConcAtRest

\* One turn of for (const sale of dueSales) for a sale without a mobile.
SaleSkipped ==
    /\ batch.pc = "sales"
    /\ batch.i <= Len(batch.dueSales)
    /\ ClientMobile(batch.dueSales[batch.i]).isNull
    /\ batch' = NextSale(SkipSale(batch))
    /\ UNCHANGED outsideBatch

\* One turn of for (const sale of dueSales) for a sale with a mobile: the SMS
\* is sent, or sendSingleSms throws.
SaleSms ==
    /\ batch.pc = "sales"
    /\ batch.i <= Len(batch.dueSales)
    /\ LET mobile == ClientMobile(batch.dueSales[batch.i])
       IN /\ ~mobile.isNull
          /\ \E ok \in BOOLEAN :
                batch' = NextSale(IF ok THEN SmsSent(Attempt(batch, batch.i, mobile, ok))
                                  ELSE SmsFailed(Attempt(batch, batch.i, mobile, ok)))
    /\ UNCHANGED outsideBatch

\* The loop over the sales is over.
SalesDone ==
    /\ batch.pc = "sales"
    /\ batch.i > Len(batch.dueSales)
    /\ batch' = [batch EXCEPT !.pc = IF TellsDirectors(batch) THEN "directors" ELSE "done",
                              !.i = 1]
    /\ UNCHANGED outsideBatch

\* One turn of for (const director of directors).
DirectorStep ==
    /\ batch.pc = "directors"
    /\ batch.i <= Len(batch.directors)
    /\ LET mobile == normalizeMobile(batch.directors[batch.i])
       IN IF mobile.isNull
          THEN batch' = [batch EXCEPT !.i = @ + 1]
          ELSE \E ok \in BOOLEAN :
                  batch' = [Attempt(batch, 0, mobile, ok) EXCEPT
                               !.i = @ + 1,
                               !.directorSummarySent = IF ok THEN @ + 1 ELSE @]
    /\ UNCHANGED outsideBatch

\* return { sent, skipped, errors, directorSummarySent }
BatchReturn ==
    /\ batch.pc = "directors"
    /\ batch.i > Len(batch.directors)
    /\ batch' = [batch EXCEPT !.pc = "done"]
    /\ UNCHANGED outsideBatch

BatchNext ==
    \/ SaleSkipped
    \/ SaleSms
    \/ SalesDone
    \/ DirectorStep
    \/ BatchReturn

BatchSpec == BatchInit /\ [][BatchNext]_vars

\* ------------------------------------------- remote license client: state
LicenseDates == {Date(2026, 2, 5), Date(2027, 1, 5)}

LicenseInit ==
    /\ \E c \in LicenseClients, d \in LicenseDates : licenseCall = NewLicenseCall(c, d)
    /\ LedgerAtRest
    /\ SyncAtRest
    /\ MirrorAtRest
    /\ ReminderAtRest
    /\ MobileAtRest
    /\ BatchAtRest
    /\ RaceAtRest
    /\ BookAtRest
    /\ ConcAtRest

\* findUnique, the two checks, and the login request.
LicenseStart ==
    /\ licenseCall.pc = "start"
    /\ licenseCall' =
          IF ~licenseCall.client.found \/ ~ClientConfigured(licenseCall.client)
          THEN [licenseCall EXCEPT !.pc = "threw"]
          ELSE [licenseCall EXCEPT
                   !.pc = "login",
                   !.requests = Append(@, LoginRequest(StripSlash(licenseCall.client.backendBaseUrl)))]
    /\ UNCHANGED outsideLicense

\* The login fetch settles; the company request.
LicenseLogin ==
    /\ licenseCall.pc = "login"
    /\ \E res \in FetchResults :
          licenseCall' =
             IF Accepted(res)
             THEN [licenseCall EXCEPT
                      !.pc = "company",
                      !.answers = Append(@, res),
                      !.requests = Append(@, CompanyRequest(StripSlash(licenseCall.client.backendBaseUrl)))]
             ELSE [licenseCall EXCEPT !.pc = "threw", !.answers = Append(@, res)]
    /\ UNCHANGED outsideLicense

\* The company fetch settles; the PATCH request.
LicenseCompany ==
    /\ licenseCall.pc = "company"
    /\ \E res \in FetchResults :
          licenseCall' =
             IF Accepted(res)
             THEN [licenseCall EXCEPT
                      !.pc = "patch",
                      !.answers = Append(@, res),
                      !.requests = Append(@, UpdateRequest(StripSlash(licenseCall.client.backendBaseUrl)))]
             ELSE [licenseCall EXCEPT !.pc = "threw", !.answers = Append(@, res)]
    /\ UNCHANGED outsideLicense

\* The PATCH fetch settles; the call returns or throws.
LicensePatch ==
    /\ licenseCall.pc = "patch"
    /\ \E res \in FetchResults :
          licenseCall' = [licenseCall EXCEPT
                             !.pc = IF PatchAccepted(res) THEN "done" ELSE "threw",
                             !.answers = Append(@, res)]
    /\ UNCHANGED outsideLicense

LicenseNext ==
    \/ LicenseStart
    \/ LicenseLogin
    \/ LicenseCompany
    \/ LicensePatch

LicenseSpec == LicenseInit /\ [][LicenseNext]_vars

\* ------------------------------------ concurrent createInstallment: state
RaceInit ==
    /\ \E total \in Amounts, data \in [Callers -> [amount : Amounts, status : InstStatuses]] :
          race = NewRace(total, data)
    /\ LedgerAtRest
    /\ SyncAtRest
    /\ MirrorAtRest
    /\ ReminderAtRest
    /\ MobileAtRest
    /\ BatchAtRest
    /\ LicenseAtRest
    /\ BookAtRest
    /\ ConcAtRest

Step(c, pc) == [race EXCEPT !.calls[c].pc = pc, !.clock = @ + 1]

\* prisma.sale.findUnique: the sale exists.
RaceFind(c) ==
    /\ race.calls[c].pc = "find"
    /\ race' = Step(c, "create")
    /\ UNCHANGED outsideRace

\* prisma.saleInstallment.create
RaceCreate(c) ==
    /\ race.calls[c].pc = "create"
    /\ race' = [Step(c, "read") EXCEPT
                   !.rows = [i \in DOMAIN race.rows \cup {c} |->
                                IF i = c
                                THEN [amount |-> race.calls[c].data.amount,
                                      status |-> race.calls[c].data.status]
                                ELSE race.rows[i]]]
    /\ UNCHANGED outsideRace

\* recalcSalePaymentStatus: prisma.sale.findUnique with the installments.
RaceRecalcRead(c) ==
    /\ race.calls[c].pc = "read"
    /\ race' = [Step(c, "write") EXCEPT
                   !.calls[c].read =
                       [paidSum |-> PaidSumOf(race.rows),
                        totalAmount |-> race.sale.totalAmount,
                        status |-> race.sale.status,
                        seen |-> DOMAIN race.rows]]
    /\ UNCHANGED outsideRace

\* recalcSalePaymentStatus: prisma.sale.update
RaceRecalcWrite(c) ==
    /\ race.calls[c].pc = "write"
    /\ race' = [Step(c, "clear") EXCEPT
                   !.sale = RecalcWrite(race.sale, race.calls[c].read, race.clock),
                   !.lastWriter = c]
    /\ UNCHANGED outsideRace

\* The audit log, the license branch, and the prisma.sale.update that clears
\* the payment extension; the call returns.
RaceClear(c) ==
    /\ race.calls[c].pc = "clear"
    /\ race' = [Step(c, "done") EXCEPT !.sale.requestedPaymentDateExtension = FALSE]
    /\ UNCHANGED outsideRace

RaceNext ==
    \E c \in Callers :
        \/ RaceFind(c)
        \/ RaceCreate(c)
        \/ RaceRecalcRead(c)
        \/ RaceRecalcWrite(c)
        \/ RaceClear(c)

RaceSpec == RaceInit /\ [][RaceNext]_vars

\* ------------------------------------------ installment amounts: state
BookInit ==
    /\ \E total \in Amounts :
          book = [sales |-> [id \in SaleIds |-> NewSale(total)], installments |-> <<>>,
                  returned |-> <<>>]
    /\ LedgerAtRest
    /\ SyncAtRest
    /\ MirrorAtRest
    /\ ReminderAtRest
    /\ MobileAtRest
    /\ BatchAtRest
    /\ LicenseAtRest
    /\ RaceAtRest
    /\ ConcAtRest

\* createInstallment(saleId, data)
BookCreateInstallment(saleId, amount, status, remote, notify) ==
    /\ InstIds # DOMAIN book.installments
    /\ LET e == CreateInstallmentEffect(book.sales, book.installments, saleId, amount,
                                        NoDate, status, remote, notify)
       IN book' = [sales |-> e.sales, installments |-> e.installments,
                   returned |-> <<"createInstallment", e.installments[e.op.instId]>>]
    /\ UNCHANGED outsideBook

\* updateInstallment(id, data)
BookUpdateInstallment(id, data) ==
    /\ id \in DOMAIN book.installments
    /\ LET e == UpdateInstallmentEffect(book.sales, book.installments, id, data)
       IN book' = [sales |-> e.sales, installments |-> e.installments,
                   returned |-> <<"updateInstallment", e.installments[id]>>]
    /\ UNCHANGED outsideBook

BookNext ==
    \/ \E id \in SaleIds, a \in AnyAmounts, st \in InstStatuses \cup {NONE},
          r \in RemoteChoices : \E n \in NotifyChoices(r) :
             BookCreateInstallment(id, a, st, r, n)
    \/ \E id \in InstIds, data \in InstallmentUpdates : BookUpdateInstallment(id, data)

BookSpec == BookInit /\ [][BookNext]_vars

\* ----------------------------- concurrent job card / expense calls: state
ConcInit ==
    /\ \E status \in JobCardStatuses, ids \in {{1}, {1, 2}} :
          \E E \in [ids -> [jobCardId : JobCardIds, status : ExpenseStatuses]],
             reqs \in [Requesters -> PayRequests \cup JobCardRequests] :
             /\ reqs[1] # reqs[2]
             /\ \A c \in Requesters : reqs[c].kind = "markAsPaid" => reqs[c].id \in ids
             /\ conc = [jobCard |-> [status |-> status], expenses |-> E,
                        requests |-> [c \in Requesters |-> NewRequest(reqs[c])],
                        start |-> [jobCard |-> [status |-> status], expenses |-> E]]
    /\ LedgerAtRest
    /\ SyncAtRest
    /\ MirrorAtRest
    /\ ReminderAtRest
    /\ MobileAtRest
    /\ BatchAtRest
    /\ LicenseAtRest
    /\ RaceAtRest
    /\ BookAtRest

Me(c) == conc.requests[c]

\* jobCardService.update: prisma.jobCard.findUnique (oldJobCard)
FindJobCard(c) ==
    /\ Me(c).pc = "findJobCard"
    /\ conc' = [conc EXCEPT !.requests[c].pc = "updateJobCard",
                            !.requests[c].oldJobCardStatus = conc.jobCard.status]
    /\ UNCHANGED outsideConc

\* jobCardService.update: prisma.jobCard.update; the sync follows when the
\* status changed.
UpdateJobCard(c) ==
    /\ Me(c).pc = "updateJobCard"
    /\ conc' = [conc EXCEPT
                   !.jobCard.status = Me(c).req.status,
                   !.requests[c].pc = IF Me(c).oldJobCardStatus # Me(c).req.status
                                      THEN "findExpenses" ELSE "done"]
    /\ UNCHANGED outsideConc

\* syncExpensesWithJobCardStatus: findByJobCardId, then the loop up to its
\* first updateStatus.
FindExpenses(c) ==
    /\ Me(c).pc = "findExpenses"
    /\ LET found == findByJobCardId(conc.expenses, Me(c).req.id)
           rows == [k \in 1..Len(found) |->
                       [id |-> found[k], status |-> conc.expenses[found[k]].status]]
       IN conc' = [conc EXCEPT !.requests[c] = Returns([Me(c) EXCEPT !.queue = rows])]
    /\ UNCHANGED outsideConc

\* expenseService.update: prisma.expense.findUnique (oldExpense)
FindExpense(c) ==
    /\ Me(c).pc = "findExpense"
    /\ conc' = [conc EXCEPT !.requests[c].pc = "updateExpense",
                            !.requests[c].oldStatus = conc.expenses[Me(c).id].status]
    /\ UNCHANGED outsideConc

\* expenseService.update: prisma.expense.update; then the first checks of
\* syncJobCardFromExpenseStatus, which read no row.
UpdateExpense(c) ==
    /\ Me(c).pc = "updateExpense"
    /\ LET r == Me(c)
           written == [conc EXCEPT !.expenses[r.id].status = r.newStatus]
       IN conc' =
             IF \/ r.newStatus = r.oldStatus
                \/ mapExpenseStatusToJobCardStatus(r.newStatus) = NULL
             THEN [written EXCEPT !.requests[c] = Returns(r)]
             ELSE [written EXCEPT !.requests[c].pc = "syncFindJobCard"]
    /\ UNCHANGED outsideConc

\* syncJobCardFromExpenseStatus: prisma.jobCard.findUnique and the
\* terminal-state guard.
SyncFindJobCard(c) ==
    /\ Me(c).pc = "syncFindJobCard"
    /\ LET r == Me(c)
           target == mapExpenseStatusToJobCardStatus(r.newStatus)
       IN conc' =
             IF TerminalJobCardKept(conc.jobCard.status, target)
             THEN [conc EXCEPT !.requests[c] = Returns(r)]
             ELSE [conc EXCEPT !.requests[c].pc = "syncFindExpenses"]
    /\ UNCHANGED outsideConc

\* syncJobCardFromExpenseStatus: prisma.expense.findMany and the every(...)
\* over what it returned.
SyncFindExpenses(c) ==
    /\ Me(c).pc = "syncFindExpenses"
    /\ LET r == Me(c)
           wanted == IF mapExpenseStatusToJobCardStatus(r.newStatus) = "COMPLETED"
                     THEN "PAID" ELSE "CANCELLED"
       IN conc' =
             IF AllExpensesHaveStatus(conc.expenses, conc.expenses[r.id].jobCardId,
                                      r.id, r.newStatus, wanted)
             THEN [conc EXCEPT !.requests[c].pc = "syncUpdateJobCard"]
             ELSE [conc EXCEPT !.requests[c] = Returns(r)]
    /\ UNCHANGED outsideConc

\* syncJobCardFromExpenseStatus: prisma.jobCard.update
SyncUpdateJobCard(c) ==
    /\ Me(c).pc = "syncUpdateJobCard"
    /\ conc' = [conc EXCEPT
                   !.jobCard.status = mapExpenseStatusToJobCardStatus(Me(c).newStatus),
                   !.requests[c] = Returns(Me(c))]
    /\ UNCHANGED outsideConc

ConcNext ==
    \E c \in Requesters :
        \/ FindJobCard(c)
        \/ UpdateJobCard(c)
        \/ FindExpenses(c)
        \/ FindExpense(c)
        \/ UpdateExpense(c)
        \/ SyncFindJobCard(c)
        \/ SyncFindExpenses(c)
        \/ SyncUpdateJobCard(c)

ConcSpec == ConcInit /\ [][ConcNext]_vars

\* ------------------------------------- payments between monthly reminders
\* The first day followed: the last day of a month, so that the cron's days
\* (the 1st, 2nd and 3rd) come next.
MonthEnds == {Date(2026, 2, 28), Date(2026, 12, 31)}

\* The cron's "0 8 1,2,3 * *".
CronDays == {1, 2, 3}

\* createInstallment on a Sale row of the reminders: the row inserted, the
\* recalculation, and the extension cleared.
RecordedSale(sale, amount, status, paidAt) ==
    LET rows == sale.installments \cup {[amount |-> amount, status |-> status, paidAt |-> paidAt]}
        paidAmount == SumAmounts({r \in rows : r.status = "PAID"})
    IN [sale EXCEPT !.installments = rows,
                    !.paidAmount = paidAmount,
                    !.status = RecalcStatus(sale, paidAmount >= sale.totalAmount),
                    !.requestedPaymentDateExtension = FALSE,
                    !.paymentExtensionDueDate = NoInstant]

MonthInit ==
    /\ \E start \in MonthEnds :
          /\ today = [date |-> start, n |-> 0]
          /\ reminderSales \in [SaleIds -> ReminderSaleRows(start)]
    /\ lastRun = NoRun
    /\ remindedOn = [ran |-> {}, selected |-> [id \in SaleIds |-> {}]]
    /\ LedgerAtRest
    /\ SyncAtRest
    /\ MirrorAtRest
    /\ MobileAtRest
    /\ BatchAtRest
    /\ LicenseAtRest
    /\ RaceAtRest
    /\ BookAtRest
    /\ ConcAtRest

\* The next day begins.
MonthNextDay ==
    /\ today.n < MaxDays
    /\ today' = [date |-> DayAfter(today.date, 1), n |-> today.n + 1]
    /\ lastRun' = NoRun
    /\ UNCHANGED <<reminderSales, remindedOn>>
    /\ UNCHANGED outsideReminder

\* The monthly cron job fires: sendPaymentReminders(now).
CronMonthlyRun ==
    /\ today.date.day \in CronDays
    /\ MonthlyRun

\* createInstallment(saleId, {amount, status, paidAt}): paidAt is the day of
\* the call or the first day followed.  (Rows are a set: a row equal to one
\* the sale has is not inserted.)
RecordPayment(id, amount, status, paidAt) ==
    /\ Cardinality(reminderSales[id].installments) <= MaxPaidRows
    /\ [amount |-> amount, status |-> status, paidAt |-> paidAt]
          \notin reminderSales[id].installments
    /\ reminderSales' =
          [reminderSales EXCEPT ![id] = RecordedSale(@, amount, status, paidAt)]
    /\ lastRun' = [kind |-> "createInstallment", at |-> today.date, selected |-> {}]
    /\ UNCHANGED <<today, remindedOn>>
    /\ UNCHANGED outsideReminder

MonthNext ==
    \/ MonthNextDay
    \/ CronMonthlyRun
    \/ \E id \in SaleIds, amount \in Prices, status \in InstStatuses :
          \E paidAt \in {today.date} \cup MonthEnds :
             RecordPayment(id, amount, status, paidAt)

MonthSpec == MonthInit /\ [][MonthNext]_vars

\* ------------------------------------------------------------------ claims
\* The sum the ledger should hold for a sale: the amounts of its installments
\* whose status is PAID.
ExpectedPaid(saleId) ==
    SumOver([i \in DOMAIN installments |->
                IF installments[i].saleId = saleId /\ installments[i].status = "PAID"
                THEN installments[i].amount ELSE 0],
            DOMAIN installments)

C2_CompletedIffFullyPaid ==
    \A s \in DOMAIN sales :
        sales[s].status # "CANCELLED" =>
            (sales[s].status = "COMPLETED" <=> sales[s].paidAmount >= sales[s].totalAmount)

\* C3 (as claimed): an installment call on a CANCELLED sale leaves it
\* CANCELLED.
C3_CancelledStaysCancelled ==
    (lastOp.op \in InstallmentOps /\ lastOp.statusBefore = "CANCELLED") =>
        \A s \in DOMAIN sales : sales[s].status = "CANCELLED"

\* C4: when updateInstallment or deleteInstallment on a COMPLETED sale leaves
\* the PAID sum below totalAmount, the sale is PENDING with completedAt null.
C4_RevertsToPending ==
    \A s \in DOMAIN sales :
        ( /\ lastOp.op \in {"updateInstallment", "deleteInstallment"}
          /\ lastOp.statusBefore = "COMPLETED"
          /\ ExpectedPaid(s) < sales[s].totalAmount )
        => (sales[s].status = "PENDING" /\ sales[s].completedAt = NoDate)

\* An installment of a COMPLETED sale was set to PENDING and the sale reverted.
C4_Witness ==
    /\ lastOp.op = "updateInstallment"
    /\ lastOp.instStatus = "PENDING"
    /\ lastOp.statusBefore = "COMPLETED"
    /\ \E s \in DOMAIN sales :
          /\ sales[s].status = "PENDING"
          /\ sales[s].paidAmount < sales[s].totalAmount

\* C5: after createInstallment recorded a PAID installment, the sale's
\* requestedPaymentDateExtension is false and its paymentExtensionDueDate is
\* null, whatever the license update and the notifications did.
C5_PaidInstallmentClearsExtension ==
    (lastOp.op = "createInstallment" /\ lastOp.instStatus = "PAID") =>
        \A s \in DOMAIN sales :
            /\ ~sales[s].requestedPaymentDateExtension
            /\ sales[s].paymentExtensionDueDate = NoDate

\* A PAID installment on a sale with a requested extension, license update failed.
C5_Witness ==
    /\ lastOp.op = "createInstallment"
    /\ lastOp.instStatus = "PAID"
    /\ lastOp.flagBefore
    /\ lastOp.license = "failed"
    /\ \A s \in DOMAIN sales : ~sales[s].requestedPaymentDateExtension

\* C6: createInstallment returns its installment, with the row inserted and
\* the sale recalculated, also when the license update or the notifications
\* failed.
C6_LicenseFailureSwallowed ==
    ( /\ lastOp.op = "createInstallment"
      /\ (lastOp.license = "failed" \/ lastOp.notified = "throw") )
    => /\ lastOp.result = "ok"
       /\ lastOp.instId \in DOMAIN installments
       /\ installments[lastOp.instId].status = lastOp.instStatus
       /\ \A s \in DOMAIN sales :
             /\ sales[s].paidAmount = ExpectedPaid(s)
             /\ (ExpectedPaid(s) >= sales[s].totalAmount => sales[s].status = "COMPLETED")

\* The remote refused the license update of a payment that completed the sale.
C6_Witness ==
    /\ lastOp.op = "createInstallment"
    /\ lastOp.license = "failed"
    /\ lastOp.result = "ok"
    /\ lastOp.instId \in DOMAIN installments
    /\ \E s \in DOMAIN sales : sales[s].status = "COMPLETED" /\ sales[s].paidAmount > 0

\* C7 (as claimed): a create refused because the first installment exceeds
\* the total leaves no new sale, item or installment row and no audit row.
C7_RefusedCreateHasNoEffect ==
    [][lastOp'.result = FirstInstallmentError =>
          /\ sales' = sales
          /\ items' = items
          /\ installments' = installments
          /\ lastOp'.logs = 0]_vars

\* C8 (as claimed): an update whose license extension failed is still
\* persisted and returned.
C8_UpdateSurvivesLicenseFailure ==
    (lastOp.op = "update" /\ lastOp.license = "failed") =>
        /\ lastOp.result = "ok"
        /\ \A s \in DOMAIN sales : sales[s].paymentExtensionDueDate = lastOp.extension

\* C9 (as claimed): createInstallment calls the license update exactly when
\* the installment is PAID and the client has all three credentials, and
\* notifies only then.
C9_LicenseOnlyForPaid ==
    lastOp.op = "createInstallment" =>
        /\ (lastOp.license # "none") <=>
               (lastOp.instStatus = "PAID" /\ ClientConfigured(client))
        /\ (lastOp.notified # "none") => lastOp.instStatus = "PAID"

\* The expiry a payment made at paidAt should give: the 3rd of the next
\* calendar month, January of the next year after December.
ExpectedExpiry(paidAt) ==
    IF paidAt.month = 12 THEN Date(paidAt.year + 1, 1, 3)
    ELSE Date(paidAt.year, paidAt.month + 1, 3)

\* C10: the expiry createInstallment sends to the remote client is the 3rd of
\* the month after paidAt's month (year rolled over for December); a sale of
\* total 1000 with one PAID installment of 1000 paid on 2026-01-15 is
\* COMPLETED with paidAmount 1000 and the expiry sent is 2026-02-03.
C10_ExpiryIsThirdOfNextMonth ==
    lastOp.op \in {"createInstallment", "create"} =>
        /\ lastOp.licenseSent # NoDate => lastOp.licenseSent = ExpectedExpiry(lastOp.paidAt)
        /\ \A s \in DOMAIN sales :
              ( /\ lastOp.paidAt = Date(2026, 1, 15)
                /\ lastOp.instStatus = "PAID"
                /\ sales[s].totalAmount = 1000
                /\ \A i \in DOMAIN installments :
                      i = lastOp.instId /\ installments[i].amount = 1000 )
              => /\ sales[s].status = "COMPLETED"
                 /\ sales[s].paidAmount = 1000
                 /\ lastOp.license = "ok" => lastOp.licenseSent = Date(2026, 2, 3)

\* The end-to-end scenario with a configured client and a remote that accepts.
C10_Witness ==
    /\ lastOp.op = "createInstallment"
    /\ lastOp.paidAt = Date(2026, 1, 15)
    /\ lastOp.license = "ok"
    /\ lastOp.licenseSent = Date(2026, 2, 3)
    /\ \E s \in DOMAIN sales :
          /\ sales[s].totalAmount = 1000
          /\ sales[s].paidAmount = 1000
          /\ sales[s].status = "COMPLETED"
    /\ Cardinality(DOMAIN installments) = 1

\* ---------------------------------------------- claims: job cards, expenses
LinkedNow(j) == LinkedTo(expenses, j)
AllLinkedAre(j, status) == \A e \in LinkedNow(j) : expenses[e].status = status

\* The job card of the expense an expense update wrote (NoJobCard: none).
UpdatedJobCard ==
    IF lastSync.op = "expenseUpdate" /\ lastSync.expenseId \in DOMAIN expenses
    THEN expenses[lastSync.expenseId].jobCardId
    ELSE NoJobCard

\* C11: whenever a reverse sync wrote the job card, every linked expense is
\* PAID if it wrote COMPLETED and every linked expense is CANCELLED if it
\* wrote CANCELLED.  With two linked expenses, marking one PAID while the
\* other is PENDING leaves the job card's status as it was, and marking one
\* PAID while the other is PAID makes an open job card COMPLETED.
C11_ReverseSyncNeedsAll ==
    /\ \A j \in DOMAIN jobCards :
          (lastSync.writes # <<>>) =>
              /\ jobCards[j].status \in {"COMPLETED", "CANCELLED"}
              /\ jobCards[j].status = "COMPLETED" => AllLinkedAre(j, "PAID")
              /\ jobCards[j].status = "CANCELLED" => AllLinkedAre(j, "CANCELLED")
    /\ \A j \in DOMAIN jobCards :
          ( /\ Idle
            /\ UpdatedJobCard = j
            /\ Cardinality(DOMAIN lastSync.before) = 2
            /\ lastSync.newStatus = "PAID"
            /\ lastSync.oldStatus # "PAID" )
          => \A other \in DOMAIN lastSync.before \ {lastSync.expenseId} :
                /\ lastSync.before[other] = "PENDING"
                      => jobCards[j].status = lastSync.jobBefore
                /\ ( /\ lastSync.before[other] = "PAID"
                     /\ lastSync.jobBefore \notin {"COMPLETED", "CANCELLED"} )
                      => jobCards[j].status = "COMPLETED"

\* The second of two expenses was marked PAID and the job card completed.
C11_Witness ==
    /\ Idle
    /\ lastSync.op = "expenseUpdate"
    /\ lastSync.newStatus = "PAID"
    /\ lastSync.jobBefore = "IN_PROGRESS"
    /\ Cardinality(DOMAIN lastSync.before) = 2
    /\ lastSync.writes = <<lastSync.expenseId>>
    /\ \A j \in DOMAIN jobCards : jobCards[j].status = "COMPLETED"

\* C12: after a job card update that changed the status to CANCELLED, every
\* expense linked to the job card is CANCELLED, whatever it was before.
C12_CancelForcesAllExpenses ==
    \A j \in DOMAIN jobCards :
        ( /\ Idle
          /\ lastSync.op = "jobCardUpdate"
          /\ lastSync.target = "CANCELLED"
          /\ lastSync.jobBefore # "CANCELLED" )
        => AllLinkedAre(j, "CANCELLED")

\* A job card with a PAID and a REJECTED expense was cancelled.
C12_Witness ==
    /\ Idle
    /\ lastSync.op = "jobCardUpdate"
    /\ lastSync.target = "CANCELLED"
    /\ \E a, b \in DOMAIN lastSync.before :
          lastSync.before[a] = "PAID" /\ lastSync.before[b] = "REJECTED"
    /\ \A j \in DOMAIN jobCards : AllLinkedAre(j, "CANCELLED")

\* The expense status each job card status stands for.
ExpectedExpenseStatus(jobCardStatus) ==
    [DRAFT |-> "DRAFT", PENDING_CLIENT_CONFIRMATION |-> "PENDING",
     IN_PROGRESS |-> "PENDING", COMPLETED |-> "PAID",
     CANCELLED |-> "CANCELLED"][jobCardStatus]

\* C13: after a job card update that changed the status to a value other
\* than CANCELLED, every linked expense that was DRAFT, PENDING or APPROVED
\* has the mapped status and every linked expense that was PAID, REJECTED or
\* CANCELLED has the status it had; the same holds for the other linked
\* expenses when an expense update moved the job card to COMPLETED.
C13_OpenExpensesFollowJobCard ==
    \A j \in DOMAIN jobCards :
        ( /\ Idle
          /\ \/ lastSync.op = "jobCardUpdate" /\ lastSync.target # NONE
             \/ UpdatedJobCard = j
          /\ jobCards[j].status # lastSync.jobBefore
          /\ jobCards[j].status # "CANCELLED" )
        => \A e \in DOMAIN lastSync.before \ {lastSync.expenseId} :
              IF lastSync.before[e] \in {"DRAFT", "PENDING", "APPROVED"}
              THEN expenses[e].status = ExpectedExpenseStatus(jobCards[j].status)
              ELSE expenses[e].status = lastSync.before[e]

\* A job card with an APPROVED and a REJECTED expense was completed.
C13_Witness ==
    /\ Idle
    /\ lastSync.op = "jobCardUpdate"
    /\ lastSync.target = "COMPLETED"
    /\ \E a, b \in DOMAIN lastSync.before :
          /\ lastSync.before[a] = "APPROVED" /\ expenses[a].status = "PAID"
          /\ lastSync.before[b] = "REJECTED" /\ expenses[b].status = "REJECTED"


\* C14: an expense update on a job card that was COMPLETED or CANCELLED
\* leaves the job card as it was unless the expense became CANCELLED, and a
\* job card update to a status other than CANCELLED is never followed by a
\* job card write of the reverse sync; a COMPLETED job card whose expenses
\* are all CANCELLED once an expense was cancelled is CANCELLED.
C14_TerminalJobCardGuard ==
    /\ \A j \in DOMAIN jobCards :
          ( /\ UpdatedJobCard = j
            /\ lastSync.jobBefore \in {"COMPLETED", "CANCELLED"}
            /\ lastSync.newStatus # "CANCELLED" )
          => (jobCards[j].status = lastSync.jobBefore /\ lastSync.writes = <<>>)
    /\ (lastSync.op = "jobCardUpdate" /\ lastSync.target # "CANCELLED")
          => lastSync.writes = <<>>
    /\ \A j \in DOMAIN jobCards :
          ( /\ Idle
            /\ UpdatedJobCard = j
            /\ lastSync.jobBefore = "COMPLETED"
            /\ lastSync.newStatus = "CANCELLED"
            /\ lastSync.oldStatus # "CANCELLED"
            /\ AllLinkedAre(j, "CANCELLED") )
          => jobCards[j].status = "CANCELLED"

\* The only expense of a CANCELLED job card was marked PAID.
C14_Witness ==
    /\ Idle
    /\ lastSync.op = "expenseUpdate"
    /\ lastSync.jobBefore = "CANCELLED"
    /\ lastSync.oldStatus = "CANCELLED"
    /\ lastSync.newStatus = "PAID"
    /\ \A j \in DOMAIN jobCards :
          UpdatedJobCard = j /\ AllLinkedAre(j, "PAID") /\ jobCards[j].status = "CANCELLED"

\* The last expense of a COMPLETED job card was cancelled.
C14_WitnessCancel ==
    /\ Idle
    /\ lastSync.op = "expenseUpdate"
    /\ lastSync.jobBefore = "COMPLETED"
    /\ lastSync.newStatus = "CANCELLED"
    /\ Cardinality(DOMAIN lastSync.before) = 2
    /\ \A j \in DOMAIN jobCards : jobCards[j].status = "CANCELLED"

NoRepeat(seq) == \A a, b \in 1..Len(seq) : seq[a] = seq[b] => a = b
Range(seq) == {seq[k] : k \in 1..Len(seq)}

\* What one request may write: each linked expense at most once, the job
\* card at most once per expense written, and no sync of the expenses
\* started by a job card write of the reverse sync.
PropagationBounded ==
    /\ NoRepeat(lastSync.updated)
    /\ Range(lastSync.updated) \subseteq DOMAIN lastSync.before
    /\ lastSync.op # "jobCardUpdate" => lastSync.updated = <<>>
    /\ NoRepeat(lastSync.writes)
    /\ Range(lastSync.writes) \subseteq
           Range(lastSync.updated) \cup
               (IF lastSync.op = "expenseUpdate" THEN {lastSync.expenseId} ELSE {})
    /\ lastSync.resyncs = 0

\* C15: a propagation writes each linked expense at most once and the job
\* card at most once per expense written, a job card write of the reverse
\* sync starts no sync of the expenses, and every propagation in flight ends.
C15_PropagationTerminates ==
    /\ []PropagationBounded
    /\ (~Idle) ~> Idle

\* A cancellation went through two expenses and the job card was written once.
C15_Witness ==
    /\ Idle
    /\ lastSync.op = "jobCardUpdate"
    /\ Len(lastSync.updated) = 2
    /\ Len(lastSync.writes) = 1

\* C16: an expense created from a JobExpense has the status its job card's
\* status stands for.
C16_DerivedExpenseStatus ==
    lastSync.op \in {"jobCardCreate", "jobExpenseCreate"} =>
        \A e \in lastSync.created :
            /\ expenses[e].jobCardId \in DOMAIN jobCards
            /\ expenses[e].status =
                   ExpectedExpenseStatus(jobCards[expenses[e].jobCardId].status)

\* An expense was added to a COMPLETED job card and is PAID.
C16_Witness ==
    /\ lastSync.op = "jobExpenseCreate"
    /\ lastSync.jobBefore = "COMPLETED"
    /\ \E e \in lastSync.created : expenses[e].status = "PAID"


\* -------------------------------------------- claims: expense field sync
\* C17: after an expense update that keeps the expense linked to its
\* JobExpense and supplies any of amount, hasReceipt, receiptUrl and
\* description, the JobExpense has the expense's value in each supplied field
\* and its former value in every other field; an update that supplies none of
\* them does not write the JobExpense.
C17_JobExpenseMirrorsExpense ==
    \A e \in DOMAIN expenseRows :
        ( /\ lastMirror.op = "expenseUpdate"
          /\ lastMirror.linkBefore # NoJobExpense
          /\ expenseRows[e].jobExpenseId = lastMirror.linkBefore )
        => LET je == expenseRows[e].jobExpenseId
           IN IF lastMirror.supplied \cap SyncedFields # {}
              THEN \A f \in SyncedFields :
                      IF f \in lastMirror.supplied
                      THEN jobExpenses[je][f] = expenseRows[e][f]
                      ELSE jobExpenses[je][f] = lastMirror.before[je][f]
              ELSE ~lastMirror.wrote /\ jobExpenses = lastMirror.before

\* An update supplied receiptUrl and description only and the JobExpense
\* took both and kept an amount that differs from the expense's.
C17_Witness ==
    /\ lastMirror.op = "expenseUpdate"
    /\ lastMirror.supplied = {"receiptUrl", "description"}
    /\ lastMirror.wrote
    /\ \E e \in DOMAIN expenseRows :
          LET je == expenseRows[e].jobExpenseId
          IN /\ je # NoJobExpense
             /\ jobExpenses[je].receiptUrl = "r.pdf"
             /\ lastMirror.before[je].receiptUrl = NULL
             /\ jobExpenses[je].description = expenseRows[e].description


\* ------------------------------------------------ claims: payment reminders
RECURSIVE DaysBeforeMonth(_, _)
DaysBeforeMonth(y, m) ==
    IF m = 1 THEN 0 ELSE DaysInMonth(y, m - 1) + DaysBeforeMonth(y, m - 1)
RECURSIVE DaysBeforeYear(_)
DaysBeforeYear(y) ==
    IF y <= 2025 THEN 0
    ELSE (IF IsLeapYear(y - 1) THEN 366 ELSE 365) + DaysBeforeYear(y - 1)
\* The number of a day, counted from 2025-01-01.
DayIndex(date) ==
    DaysBeforeYear(date.year) + DaysBeforeMonth(date.year, date.month) + date.day

\* paidAt lies in the calendar month before the month of `at`.
InPreviousMonth(paidAt, at) ==
    paidAt.year * 12 + paidAt.month = at.year * 12 + at.month - 1

PaidRows(sale) == {r \in sale.installments : r.status = "PAID"}

\* C18: the monthly reminder selects exactly the sales that are not
\* CANCELLED, have totalAmount > 0, are not flagged for an extension, have
\* paidAmount < totalAmount and have no PAID installment or a most recent
\* PAID installment paid in the calendar month before the run.
C18_MonthlySelection ==
    lastRun.kind = "monthly" =>
        \A id \in DOMAIN reminderSales :
            LET sale == reminderSales[id]
            IN id \in lastRun.selected <=>
                  /\ sale.status # "CANCELLED"
                  /\ sale.totalAmount > 0
                  /\ ~sale.requestedPaymentDateExtension
                  /\ sale.paidAmount < sale.totalAmount
                  /\ \/ PaidRows(sale) = {}
                     \/ \E r \in PaidRows(sale) :
                           /\ \A q \in PaidRows(sale) :
                                 DayIndex(q.paidAt) <= DayIndex(r.paidAt)
                           /\ InPreviousMonth(r.paidAt, lastRun.at)

\* A January run selected a sale last paid in December of the year before,
\* with an older PAID installment besides.
C18_Witness ==
    /\ lastRun.kind = "monthly"
    /\ lastRun.at.month = 1
    /\ \E id \in lastRun.selected :
          /\ Cardinality(PaidRows(reminderSales[id])) = 2
          /\ \E r \in PaidRows(reminderSales[id]) :
                r.paidAt.month = 12 /\ r.paidAt.year = lastRun.at.year - 1

\* A sale the extension reminder is for: not cancelled, flagged, not fully
\* paid.
AwaitsExtension(sale) ==
    /\ sale.status # "CANCELLED"
    /\ sale.requestedPaymentDateExtension
    /\ sale.paidAmount < sale.totalAmount

DaysUntilDue(sale, at) == DayIndex(sale.paymentExtensionDueDate.date) - DayIndex(at)

\* C19: the extension reminder selects exactly the sales awaiting an
\* extension whose due date is 1, 2 or 3 UTC days after the run; over the
\* daily runs such a sale is selected on every run 1 to 3 days before its due
\* date and on no other.
C19_ExtensionWindow ==
    /\ lastRun.kind = "extension" =>
          \A id \in DOMAIN reminderSales :
              LET sale == reminderSales[id]
              IN id \in lastRun.selected <=>
                    /\ AwaitsExtension(sale)
                    /\ sale.paymentExtensionDueDate # NoInstant
                    /\ DaysUntilDue(sale, lastRun.at) \in 1..3
    /\ \A id \in DOMAIN reminderSales :
          LET sale == reminderSales[id]
          IN (AwaitsExtension(sale) /\ sale.paymentExtensionDueDate # NoInstant)
                => remindedOn.selected[id] =
                      {d \in remindedOn.ran : DaysUntilDue(sale, d) \in 1..3}

\* A sale due at the last millisecond of its day was selected on three runs,
\* and not on the day it was due.
C19_Witness ==
    /\ lastRun.kind = "extension"
    /\ \E id \in DOMAIN reminderSales :
          /\ Cardinality(remindedOn.selected[id]) = 3
          /\ reminderSales[id].paymentExtensionDueDate.ms = EndOfDay
          /\ reminderSales[id].paymentExtensionDueDate.date = lastRun.at
          /\ id \notin lastRun.selected


\* ------------------------------------------------- claims: normalizeMobile
Mobile254 == <<"2", "5", "4", "7", "1", "2", "3", "4", "5", "6", "7", "8">>

\* A phone number of one of the three accepted forms, separators aside:
\* 9 digits from 7, 10 digits from 0, or 12 digits from 254.
IsKenyanMobile(phone) ==
    LET digits == OnlyDigits(phone)
    IN \/ Len(digits) = 9 /\ digits[1] = "7"
       \/ Len(digits) = 10 /\ digits[1] = "0"
       \/ Len(digits) = 12 /\ SubSeq(digits, 1, 3) = <<"2", "5", "4">>

Over == batch.pc \in {"done", "threw"}
SalesOf(reason) ==
    {batch.errors[k].saleNumber : k \in {n \in 1..Len(batch.errors) :
                                            batch.errors[n].reason = reason}}
AttemptsFor(sale) == {k \in 1..Len(batch.smsLog) : batch.smsLog[k].sale = sale}

\* C21: when a run of either kind is over, every selected sale was
\* processed: a sale without a normalizable phone has a "No valid phone
\* number" error, is counted in skipped and no SMS was attempted for it; every
\* other sale had exactly one SMS attempted, and a failed one has an error
\* entry while the sales after it were processed all the same.
C21_EverySaleProcessed ==
    Over =>
        /\ \A s \in 1..Len(batch.dueSales) :
              IF ClientMobile(batch.dueSales[s]).isNull
              THEN s \in SalesOf(NoValidPhone) /\ AttemptsFor(s) = {}
              ELSE /\ Cardinality(AttemptsFor(s)) = 1
                   /\ \A k \in AttemptsFor(s) :
                         ~batch.smsLog[k].ok => s \in SalesOf(SmsSendFailed)
        /\ batch.skipped =
              Cardinality({s \in 1..Len(batch.dueSales) :
                              ClientMobile(batch.dueSales[s]).isNull})

\* A run of each kind where the first sale's SMS failed, the second sale has
\* no phone, and the run went on to its end.
C21_Witness ==
    /\ batch.pc = "done"
    /\ Len(batch.dueSales) = 2
    /\ \E k \in AttemptsFor(1) : ~batch.smsLog[k].ok
    /\ 2 \in SalesOf(NoValidPhone)
    /\ batch.kind = "extension"

SentSales == {batch.clientNamesSent[k] : k \in 1..Len(batch.clientNamesSent)}

\* C27: on return of a run, sent + errors.length is the number of selected
\* sales, skipped <= errors.length, and every selected sale is in exactly one
\* of sent, skipped and send-failure; the director summaries change none of
\* sent, skipped and errors.
C27_RunCounts ==
    /\ [](batch.pc = "done" =>
            /\ batch.sent + Len(batch.errors) = Len(batch.dueSales)
            /\ batch.skipped <= Len(batch.errors)
            /\ batch.sent = Cardinality(SentSales)
            /\ batch.skipped = Cardinality(SalesOf(NoValidPhone))
            /\ Len(batch.errors) =
                  Cardinality(SalesOf(NoValidPhone)) + Cardinality(SalesOf(SmsSendFailed))
            /\ \A s \in 1..Len(batch.dueSales) :
                  \/ s \in SentSales /\ s \notin SalesOf(NoValidPhone) \cup SalesOf(SmsSendFailed)
                  \/ s \in SalesOf(NoValidPhone) /\ s \notin SentSales \cup SalesOf(SmsSendFailed)
                  \/ s \in SalesOf(SmsSendFailed) /\ s \notin SentSales \cup SalesOf(NoValidPhone))
    /\ [][batch.pc = "directors" =>
            /\ batch'.sent = batch.sent
            /\ batch'.skipped = batch.skipped
            /\ batch'.errors = batch.errors]_vars

\* A monthly run that returned after one sale was sent, one failed, and the
\* director's summary failed.
C27_Witness ==
    /\ batch.pc = "done"
    /\ batch.kind = "monthly"
    /\ batch.sent = 1
    /\ SalesOf(SmsSendFailed) # {}
    /\ \E k \in AttemptsFor(0) : ~batch.smsLog[k].ok

\* ------------------------------------------ claims: remote license client
IsPrefix(a, b) == Len(a) <= Len(b) /\ SubSeq(b, 1, Len(a)) = a
Methods(reqs) == [k \in 1..Len(reqs) |-> reqs[k].method]
Good(res) == ~res.rejected /\ res.ok

\* C22: the requests sent are login, company fetch, PATCH in this order, each
\* at most once; a request is sent only after the one before it got a 2xx
\* answer with its accessToken (code); once a step failed the call has
\* thrown and sends nothing more; a client with a blank credential or base
\* URL gets no request at all.
C22_LicenseStepsInOrder ==
    /\ [](/\ IsPrefix(Methods(licenseCall.requests), <<"POST", "GET", "PATCH">>)
          /\ \A k \in 1..Len(licenseCall.requests) :
                k > 1 => /\ Len(licenseCall.answers) >= k - 1
                         /\ Good(licenseCall.answers[k - 1])
                         /\ licenseCall.answers[k - 1].field
          /\ \A k \in 1..Len(licenseCall.answers) :
                ~Good(licenseCall.answers[k])
                   => /\ licenseCall.pc = "threw"
                      /\ Len(licenseCall.requests) = k
                      /\ Len(licenseCall.answers) = k
          /\ licenseCall.pc = "done"
                => Len(licenseCall.requests) = 3 /\ Len(licenseCall.answers) = 3
          /\ ~ClientConfigured(licenseCall.client) => licenseCall.requests = <<>>)
    /\ [][licenseCall.pc = "threw" => licenseCall' = licenseCall]_vars

\* The company fetch answered 2xx without a code: the call threw after two
\* requests.
C22_Witness ==
    /\ licenseCall.pc = "threw"
    /\ Len(licenseCall.requests) = 2
    /\ Len(licenseCall.answers) = 2
    /\ licenseCall.answers[2].ok
    /\ ~licenseCall.answers[2].field

\* ------------------------------------- claims: concurrent createInstallment
BothReturned == \A c \in Callers : race.calls[c].pc = "done"
UnseenPaid(c) ==
    {i \in DOMAIN race.rows : race.rows[i].status = "PAID" /\ i \notin race.calls[c].read.seen}
PaidInstallments == {i \in DOMAIN race.rows : race.rows[i].status = "PAID"}
PaidTotal == SumOver([i \in PaidInstallments |-> race.rows[i].amount], PaidInstallments)
Required(sale) == IF PaidTotal >= sale.totalAmount THEN "COMPLETED" ELSE "PENDING"

\* C23: when both calls have returned, paidAmount is the PAID sum that the
\* call whose sale.update came last had read; it differs from the sum of the
\* sale's PAID installments exactly when that call read before the other
\* call's PAID installment was inserted (the lost update), and such a final
\* state is reachable (C23_Witness).
C23_LostUpdate ==
    BothReturned =>
        /\ race.sale.paidAmount = race.calls[race.lastWriter].read.paidSum
        /\ race.sale.paidAmount # PaidTotal <=> UnseenPaid(race.lastWriter) # {}
        /\ UnseenPaid(race.lastWriter) = {}
              => race.sale.status = Required(race.sale)

\* Both calls returned, every installment is PAID and together they pay the
\* sale, yet paidAmount is short and completedAt is empty.
C23_Witness ==
    /\ BothReturned
    /\ PaidTotal >= race.sale.totalAmount
    /\ race.sale.paidAmount < race.sale.totalAmount
    /\ race.sale.paidAmount # PaidTotal
    /\ race.sale.completedAt = 0

\* ------------------------------------------ claims: installment amounts
\* C24 (as claimed): every SaleInstallment row has amount > 0 after any
\* sequence of createInstallment and updateInstallment calls.
C24_InstallmentAmountPositive ==
    \A i \in DOMAIN book.installments : book.installments[i].amount > 0

\* ------------------------- claims: concurrent job card / expense calls
AllReturned == \A c \in Requesters : conc.requests[c].pc = "done"
Asked(kind, status) ==
    {c \in Requesters : conc.requests[c].req.kind = kind /\ conc.requests[c].req.status = status}

\* C25 (as claimed): when update(status = CANCELLED) on the job card and
\* markAsPaid on one of its expenses have both returned, the job card is
\* COMPLETED only if all its linked expenses are PAID.
C25_CancelAndPayConsistent ==
    (/\ AllReturned
     /\ Asked("update", "CANCELLED") # {}
     /\ Asked("markAsPaid", "PAID") # {})
        => (conc.jobCard.status = "COMPLETED"
               => \A e \in DOMAIN conc.expenses : conc.expenses[e].status = "PAID")

\* A final state where the job card was cancelled, its expense cancelled
\* with it, and the late reverse sync of markAsPaid completed the job card.
C25_Violation ==
    /\ AllReturned
    /\ Asked("update", "CANCELLED") # {}
    /\ Asked("markAsPaid", "PAID") # {}
    /\ conc.jobCard.status = "COMPLETED"
    /\ \E e \in DOMAIN conc.expenses : conc.expenses[e].status = "CANCELLED"

\* The two markAsPaid calls of C26: on the only two expenses of a job card
\* that was not in a terminal status, neither expense PAID before.
PaysBoth ==
    /\ DOMAIN conc.expenses = {1, 2}
    /\ \A c \in Requesters : conc.requests[c].req.kind = "markAsPaid"
    /\ conc.start.jobCard.status \notin JobCardTerminalStates
    /\ \A e \in LinkedIds : conc.start.expenses[e].status # "PAID"

\* C26: two concurrent markAsPaid calls on the only two expenses of a job
\* card, neither PAID before, the job card not in a terminal status: however
\* their database calls interleave, when both have returned the job card is
\* COMPLETED and both expenses are PAID.
C26_BothPaidCompletes ==
    (AllReturned /\ PaysBoth)
        => /\ conc.jobCard.status = "COMPLETED"
           /\ \A e \in LinkedIds : conc.expenses[e].status = "PAID"

\* Both markAsPaid calls returned on a job card that was IN_PROGRESS with
\* one APPROVED and one REJECTED expense.
C26_Witness ==
    /\ AllReturned
    /\ PaysBoth
    /\ conc.start.jobCard.status = "IN_PROGRESS"
    /\ conc.start.expenses[1].status = "APPROVED"
    /\ conc.start.expenses[2].status = "REJECTED"
    /\ conc.jobCard.status = "COMPLETED"

\* ----------------------------- claims: payments between monthly reminders
\* The sale's most recent PAID installments.
LatestPaid(sale) ==
    {r \in PaidRows(sale) : \A q \in PaidRows(sale) : DayIndex(q.paidAt) <= DayIndex(r.paidAt)}

PaidThisMonth(sale, at) ==
    \E r \in LatestPaid(sale) : r.paidAt.year = at.year /\ r.paidAt.month = at.month

\* C28: a monthly run (on the 1st, 2nd or 3rd) selects no sale whose most
\* recent PAID installment was paid in the calendar month of the run.
C28_PaidThisMonthNotReminded ==
    lastRun.kind = "monthly" =>
        \A id \in DOMAIN reminderSales :
            PaidThisMonth(reminderSales[id], lastRun.at) => id \notin lastRun.selected

\* A run on the 2nd or 3rd passed over a sale that is otherwise due (not
\* cancelled, not flagged, not fully paid, paid in the month before) because
\* of a PAID installment recorded on the 1st or 2nd.
C28_Witness ==
    /\ lastRun.kind = "monthly"
    /\ lastRun.at.day \in {2, 3}
    /\ \E id \in DOMAIN reminderSales :
          LET sale == reminderSales[id]
          IN /\ sale.status # "CANCELLED"
             /\ sale.paidAmount < sale.totalAmount
             /\ ~sale.requestedPaymentDateExtension
             /\ PaidThisMonth(sale, lastRun.at)
             /\ \E q \in PaidRows(sale) : InPreviousMonth(q.paidAt, lastRun.at)
             /\ id \notin lastRun.selected

\* ------------------------------------------ claims: normalizeMobile, shape
\* C29 (as claimed): normalizeMobile returns null or a string of exactly 12
\* digits that starts with 254.
C29_NullOrTwelveDigits ==
    mobileCall.done =>
        \/ mobileCall.result.isNull
        \/ /\ Len(mobileCall.result.value) = 12
           /\ \A k \in 1..12 : mobileCall.result.value[k] \in Digits
           /\ SubSeq(mobileCall.result.value, 1, 3) = <<"2", "5", "4">>

\* ---------------------------------------------------- claims: completedAt
\* C30: every installment call (insert, update, delete) that leaves the sale
\* fully paid leaves its completedAt at the time of the call, also when the
\* sale was COMPLETED before with an earlier completedAt.
C30_CompletedAtReplaced ==
    [][(now' = now /\ lastOp'.op \in InstallmentOps)
          => \A s \in DOMAIN sales' :
                PaidSum(installments', s) >= sales'[s].totalAmount
                   => /\ sales'[s].status = "COMPLETED"
                      /\ sales'[s].completedAt = InstantAt(now')]_vars

\* At the second instant, an installment insert or update on a sale that was
\* COMPLETED left it COMPLETED, with completedAt at the second instant.
C30_Witness ==
    /\ now = 2
    /\ lastOp.op \in {"createInstallment", "updateInstallment"}
    /\ lastOp.statusBefore = "COMPLETED"
    /\ \E s \in DOMAIN sales :
          /\ sales[s].status = "COMPLETED"
          /\ sales[s].completedAt = InstantAt(2)

====
